---- MODULE Spec2Model ----
(***************************************************************************)
(* JewelForge game logic (src/game-logic.js): the genome evolution engine  *)
(* evolveAgentGenomes with its rule table and the genome snapshot.         *)
(*                                                                         *)
(* A JavaScript object is a record; an agent's numeric traits are the      *)
(* function `genome`, whose DOMAIN is the set of traits the agent has      *)
(* (agent[key] !== undefined is key \in DOMAIN agent.genome).  Rosters and *)
(* snapshot rows are indexed from 0, as in the source.  The em dash of the *)
(* source's string literals is written "--".                               *)
(***************************************************************************)
EXTENDS Integers, Sequences, FiniteSets, TLC

VARIABLES
  agentStates,      \* the roster: [0..N-1 -> agent], mutated in place by the engine
  genomeSnapshots,  \* the snapshot log: a sequence of full-roster captures
  arrays,           \* the styleTags array objects; a styleTags field holds an
                    \* index into this sequence (a reference, not the contents)
  call,             \* the last call: its arguments and how it ended
  before,           \* agentStates as it was when the last call started
  calls,            \* number of calls made so far
  processed,        \* number of calls that found a rule and ran to their end
  patternBank,      \* the stored design precedents, oldest first
  retrieval,        \* the last retrievePatterns call: arguments, locals, result
  traitEffectiveness, \* the trait map: trait name -> record, mutated in place
  traitLog,         \* one entry per computeTraitEffectiveness call: its
                    \* arguments, the map before it and the map after it
  qTable,           \* the reinforcement grid: strategy -> category -> cell
  context,          \* the last formatter call: arguments and returned text
  stat              \* the last statistics call: arguments and returned number

evolutionVars == <<agentStates, genomeSnapshots, arrays, call, before, calls, processed>>

patternVars == <<patternBank, retrieval>>

traitVars == <<traitEffectiveness, traitLog>>

vars == <<evolutionVars, patternVars, traitVars, qTable, context, stat>>

\* what the evolution engine and the caller's edits never touch
outsideEvolution == <<patternVars, traitVars, qTable, context, stat>>

\* what retrievePatterns never touches
outsidePatterns == <<evolutionVars, traitVars, qTable, context, stat>>

\* what computeTraitEffectiveness never touches (it reads the roster)
outsideTraits == <<evolutionVars, patternVars, qTable, context, stat>>

\* what the reinforcement grid's update never touches
outsideGrid == <<evolutionVars, patternVars, traitVars, context, stat>>

\* what a formatter never touches: everything but the text it returns
outsideContext == <<evolutionVars, patternVars, traitVars, qTable, stat>>

\* what a statistics function never touches
outsideStat == <<evolutionVars, patternVars, traitVars, qTable, context>>

\* Longest sequence of calls explored.
MaxCalls == 2

Max(a, b) == IF a >= b THEN a ELSE b

Min(a, b) == IF a <= b THEN a ELSE b

Abs(v) == IF v < 0 THEN -v ELSE v

\* --------------------------------------------------------------- statistics
\* Numbers with decimals are held as integers in the unit of their last
\* printed digit: pearsonCorr and giniCoeff in thousandths (toFixed(3)),
\* linearSlope in tenths (toFixed(1)).  Sums of deviations from the mean are
\* held times n (n * x - sum), which leaves every ratio as it is.

\* Longest series explored.
MaxPoints == 3

RECURSIVE Sum(_)
Sum(vals) == IF vals = <<>> THEN 0 ELSE Head(vals) + Sum(Tail(vals))

\* n * (vals[i] - mean)
Deviations(vals) == [i \in 1..Len(vals) |-> Len(vals) * vals[i] - Sum(vals)]

\* sum of xs[i] * ys[i]
SumProducts(xs, ys) == Sum([i \in 1..Len(xs) |-> xs[i] * ys[i]])

\* The product x * y of two naturals below 10^8, as <<high, low>> with
\* x * y = high * 10^8 + low; no part exceeds the 32-bit range.
Product(x, y) ==
  LET x1 == x \div 10000
      x0 == x % 10000
      y1 == y \div 10000
      y0 == y % 10000
      mid == x1 * y0 + x0 * y1
      low == (mid % 10000) * 10000 + x0 * y0
  IN  <<x1 * y1 + (mid \div 10000) + (low \div 100000000), low % 100000000>>

\* a * a * d <= b * b, exactly
SquareTimesAtMost(a, d, b) ==
  LET l == Product(a * a, d)
      r == Product(b, b)
  IN  l[1] < r[1] \/ (l[1] = r[1] /\ l[2] <= r[2])

\* The largest k in lo..hi with (2k - 1) * sqrt(d) <= 2 * t, that is
\* t / sqrt(d) rounded to the nearest integer, halves upwards.
RECURSIVE RoundedRoot(_, _, _, _)
RoundedRoot(t, d, lo, hi) ==
  IF lo = hi THEN lo
  ELSE LET mid == (lo + hi + 1) \div 2
       IN  IF SquareTimesAtMost(2 * mid - 1, d, 2 * t)
           THEN RoundedRoot(t, d, mid, hi)
           ELSE RoundedRoot(t, d, lo, mid - 1)

\* a / b rounded to the nearest integer, halves away from zero (toFixed)
RoundDiv(a, b) ==
  LET q == (2 * Abs(a) + Abs(b)) \div (2 * Abs(b))
  IN  IF (a < 0) = (b < 0) THEN q ELSE -q

\* Math.round(a / b): to the nearest integer, halves towards +Infinity
MathRound(a, b) ==
  IF b > 0 THEN (2 * a + b) \div (2 * b) ELSE (-2 * a - b) \div (-2 * b)

\* what a division 0 / 0 gives; no number of the model equals it
NaN == -2147483647

\* faulty variant: the dx2 && dy2 test is dropped
pearsonCorrUnguarded(xs, ys) ==
  LET num == SumProducts(Deviations(xs), Deviations(ys))
      dx2 == SumProducts(Deviations(xs), Deviations(xs))
      dy2 == SumProducts(Deviations(ys), Deviations(ys))
  IN  IF Len(xs) < 2 THEN 0
      ELSE IF dx2 # 0 /\ dy2 # 0
           THEN (IF num < 0 THEN -1 ELSE 1)
                * RoundedRoot(1000 * Abs(num), dx2 * dy2, 0, 1000)
           ELSE NaN

\* pearsonCorr(xs, ys), in thousandths
pearsonCorr(xs, ys) ==
  LET num == SumProducts(Deviations(xs), Deviations(ys))
      dx2 == SumProducts(Deviations(xs), Deviations(xs))
      dy2 == SumProducts(Deviations(ys), Deviations(ys))
  IN  IF Len(xs) < 2 THEN 0
      ELSE IF dx2 # 0 /\ dy2 # 0
           THEN (IF num < 0 THEN -1 ELSE 1)
                * RoundedRoot(1000 * Abs(num), dx2 * dy2, 0, 1000)
           ELSE 0

\* where v goes among the ascending values
RECURSIVE InsertAscending(_, _)
InsertAscending(sorted, v) ==
  IF sorted = <<>> THEN <<v>>
  ELSE IF Head(sorted) <= v THEN <<Head(sorted)>> \o InsertAscending(Tail(sorted), v)
       ELSE <<v>> \o sorted

\* [...vals].sort((a, b) => a - b)
RECURSIVE SortAscending(_)
SortAscending(vals) ==
  IF vals = <<>> THEN <<>>
  ELSE InsertAscending(SortAscending(Tail(vals)), Head(vals))

\* giniCoeff(vals), in thousandths
giniCoeff(vals) ==
  LET s == SortAscending(vals)
      n == Len(s)
      tot == Sum(s)
      num == Sum([i \in 1..n |-> (2 * i - n - 1) * s[i]])
  IN  IF tot = 0 THEN 0 ELSE RoundDiv(1000 * num, n * tot)

\* linearSlope(xs, ys), in tenths
linearSlope(xs, ys) ==
  LET num == SumProducts(Deviations(xs), Deviations(ys))
      den == SumProducts(Deviations(xs), Deviations(xs))
  IN  IF den # 0 THEN RoundDiv(10 * num, den) ELSE 0

\* pct(v, tot)
pct(v, tot) == IF tot # 0 THEN MathRound(v * 100, tot) ELSE 0

\* the numbers a series is drawn from
StatValues == {-3, 0, 3}

\* the series of a given length
Series(n) == [1..n -> StatValues]

\* a call of pearsonCorr, its arguments and what it returned
pearsonCorrCall(xs, ys) ==
  /\ stat' = [fn |-> "pearsonCorr", xs |-> xs, ys |-> ys,
              result |-> pearsonCorr(xs, ys)]
  /\ UNCHANGED outsideStat

\* a call of giniCoeff
giniCoeffCall(vals) ==
  /\ stat' = [fn |-> "giniCoeff", vals |-> vals, result |-> giniCoeff(vals)]
  /\ UNCHANGED outsideStat

\* a call of linearSlope
linearSlopeCall(xs, ys) ==
  /\ stat' = [fn |-> "linearSlope", xs |-> xs, ys |-> ys,
              result |-> linearSlope(xs, ys)]
  /\ UNCHANGED outsideStat

\* a call of pct
pctCall(v, tot) ==
  /\ stat' = [fn |-> "pct", v |-> v, tot |-> tot, result |-> pct(v, tot)]
  /\ UNCHANGED outsideStat

\* ---------------------------------------------------------------- rule table

Beliefs1 ==
  <<"Negative-space architecture is the market signal",
    "Floating geometry captures attention -- I proved it",
    "Ornate still has a place, but I need to read the room",
    "Industrial alone doesn't win -- need to hybridize",
    "Bridal margin is safe, but minimal won on aesthetics",
    "My sculptural approach needs better margin math",
    "Crystal energy needs commercial grounding -- market wants clean lines",
    "Featherweight forms are interesting but minimal dominates right now",
    "Kinetic concepts need to align with the minimal wave",
    "Geometric precision is the baseline -- time to differentiate">>

Beliefs2 ==
  <<"Cathedral architecture is peak -- push it one more cycle",
    "Second place on refinement -- I need a bolder pivot",
    "Yellow gold shift paid off. Organic is the untapped gap",
    "Industrial-minimal hybrid scored better -- keep mutating",
    "Market arch almost won -- margins rule long-term",
    "Two cycles of minimal domination -- the contrarian play is organic",
    "Mystical aesthetic needs structural backbone -- fuse crystal with architecture",
    "Lightweight forms can ride the minimal wave if executed precisely",
    "Movement-based design is the unexplored frontier beyond static minimal",
    "Faceted geometry aligns with the minimal trend -- double down">>

Beliefs3 ==
  <<"I over-exploited minimal. The trend exhausted under my feet",
    "Pivot to pendant saved me from minimal saturation",
    "Champagne Pearl Organic Cluster found the romantic-organic sweet spot",
    "Organic shard was the right direction -- mixed metal is the future",
    "Margin stability works long-term but never wins the epoch",
    "Root & Branch proved that nature's geometry beats digital precision",
    "Crystal-organic fusion is the next frontier -- mystic meets nature",
    "Ethereal lightness pairs naturally with organic movement",
    "Kinetic organic forms are where the market wants to go next",
    "Geometric purity saturated -- faceted organic is the pivot">>

Beliefs4 ==
  <<"The market rewards refined organic -- not raw experimentation",
    "Ornamental narrative is the new edge over pure structure",
    "Heritage-organic fusion found the sweet spot between old and new",
    "Mixed metal organic hybrids are the winning formula now",
    "Commercial-organic is the safe bet -- proven by two cycles of data",
    "Nature geometry matured -- time to add storytelling layers",
    "Crystal-infused organic is proving the mystic aesthetic has legs",
    "Lightness within organic complexity is the differentiator",
    "Movement in organic forms creates emotional connection with buyers",
    "Faceted organic geometry merges two winning trends perfectly">>

Beliefs5 ==
  <<"Final cycle validated that market-fit synthesis beats raw innovation",
    "Five cycles of data prove that adaptability wins over consistency",
    "Heritage elements anchored in trend awareness defined the epoch",
    "The hybrid approach paid off -- mixing signals from all prior cycles",
    "Margin discipline across five cycles built the strongest portfolio",
    "Organic sculpture matured into a sustainable design language",
    "The mystic-meets-market approach found its audience at last",
    "Ethereal precision became the unexpected epoch-defining aesthetic",
    "Kinetic storytelling in jewelry proved the market craves experience",
    "Geometric evolution across five cycles traced the market's journey">>

\* rules.beliefs[idx] || 'Adapting to market signals'
FallbackBelief == "Adapting to market signals"

EVOLUTION_RULES ==
  [c \in 1..5 |->
    CASE c = 1 ->
      [winner |-> [minimalism |-> 8, novelty |-> 5, risk |-> -5],
       loser  |-> [novelty |-> 10, risk |-> 8, marginSens |-> 6],
       others |-> [minimalism |-> 4, ornamentation |-> -3, novelty |-> 2],
       beliefs |-> Beliefs1]
    [] c = 2 ->
      [winner |-> [minimalism |-> 6, symmetry |-> -4, risk |-> -8],
       loser  |-> [novelty |-> 12, marginSens |-> 8, ornamentation |-> 5],
       others |-> [risk |-> 5, novelty |-> 4, minimalism |-> -3],
       beliefs |-> Beliefs2]
    [] c = 3 ->
      [winner |-> [novelty |-> 10, ornamentation |-> 6, risk |-> 5, minimalism |-> -8],
       loser  |-> [minimalism |-> -5, novelty |-> 8, marketFit |-> 5],
       others |-> [novelty |-> 5, ornamentation |-> 3, minimalism |-> -4],
       beliefs |-> Beliefs3]
    [] c = 4 ->
      [winner |-> [ornamentation |-> 6, marketFit |-> 5, risk |-> -4, novelty |-> 3],
       loser  |-> [risk |-> 10, novelty |-> 8, minimalism |-> -5, ornamentation |-> 4],
       others |-> [ornamentation |-> 3, novelty |-> 4, marketFit |-> 2],
       beliefs |-> Beliefs4]
    [] c = 5 ->
      [winner |-> [novelty |-> 5, marketFit |-> 8, ornamentation |-> 4, risk |-> -6],
       loser  |-> [novelty |-> 12, risk |-> 10, marginSens |-> 6, marketFit |-> 4],
       others |-> [marketFit |-> 5, novelty |-> 3, risk |-> -2],
       beliefs |-> Beliefs5]]

\* EVOLUTION_RULES[cycleNum], with NoRules for undefined (a cycle without an entry)
NoRules == [undefined |-> TRUE]

\* faulty variant: a cycle without an entry falls back to the rules of cycle 1
RulesOfFallback(cycleNum) ==
  IF cycleNum \in DOMAIN EVOLUTION_RULES THEN EVOLUTION_RULES[cycleNum]
  ELSE EVOLUTION_RULES[1]

RulesOf(cycleNum) ==
  IF cycleNum \in DOMAIN EVOLUTION_RULES THEN EVOLUTION_RULES[cycleNum] ELSE NoRules

\* ------------------------------------------------------------ genome snapshot

\* the `?? default` of every trait a snapshot carries
SnapshotDefaults ==
  [minimalism |-> 50, novelty |-> 50, ornamentation |-> 50, marketFit |-> 50,
   symmetry |-> 60, platBias |-> 50, coloredStone |-> 40, diamond |-> 60,
   mixedMetal |-> 30, risk |-> 50, marginSens |-> 65, complexBudget |-> 55]

\* faulty variant: styleTags: agent.styleTags, the agent's own array
snapshotGenomeShared(agent, fresh) ==
  [id |-> agent.id,
   name |-> agent.name,
   genome |-> [t \in DOMAIN SnapshotDefaults |->
                 IF t \in DOMAIN agent.genome THEN agent.genome[t]
                 ELSE SnapshotDefaults[t]],
   styleTags |-> agent.styleTags,
   reputation |-> agent.reputation,
   credits |-> agent.credits]

\* faulty variant: the capture is taken before the shifts of the cycle are
\* applied (the value less the delta the agent's last history record holds)
snapshotGenomeBeforeShifts(agent, fresh) ==
  LET shifts == IF agent.evolutionHistory = <<>> THEN << >>
                ELSE agent.evolutionHistory[Len(agent.evolutionHistory)].genomeShifts
  IN  [id |-> agent.id,
       name |-> agent.name,
       genome |-> [t \in DOMAIN SnapshotDefaults |->
                     IF t \in DOMAIN agent.genome
                     THEN agent.genome[t] - (IF t \in DOMAIN shifts THEN shifts[t] ELSE 0)
                     ELSE SnapshotDefaults[t]],
       styleTags |-> fresh,
       reputation |-> agent.reputation,
       credits |-> agent.credits]

\* The returned object.  Numbers and strings are copied by value; the spread
\* [...(agent.styleTags || [])] builds a new array, which lives at `fresh`.
snapshotGenome(agent, fresh) ==
  [id |-> agent.id,
   name |-> agent.name,
   genome |-> [t \in DOMAIN SnapshotDefaults |->
                 IF t \in DOMAIN agent.genome THEN agent.genome[t]
                 ELSE SnapshotDefaults[t]],
   styleTags |-> fresh,
   reputation |-> agent.reputation,
   credits |-> agent.credits]

\* The arrays after the spread of every agent's styleTags: one new array per
\* agent, in roster order, holding the elements of the agent's array.
SpreadStyleTags(agents, store) ==
  store \o [i \in 1..Cardinality(DOMAIN agents) |-> store[agents[i - 1].styleTags]]

\* agentStates.map((a) => snapshotGenome(a))
SnapshotRoster(agents, store) ==
  [i \in DOMAIN agents |-> snapshotGenome(agents[i], Len(store) + i + 1)]

\* ------------------------------------------------------------------- rosters

makeAgent ==
  [id |-> 0,
   name |-> "TestAgent",
   styleTags |-> <<"clean", "modern">>,
   marketFocus |-> "Ring",
   genome |->
     [minimalism |-> 70, novelty |-> 55, ornamentation |-> 30, marketFit |-> 65,
      symmetry |-> 60, platBias |-> 50, coloredStone |-> 40, diamond |-> 60,
      mixedMetal |-> 30, risk |-> 50, marginSens |-> 65, complexBudget |-> 55,
      pricePoint |-> 50, manufacturability |-> 60, wearability |-> 65,
      trendSens |-> 45],
   credits |-> 100000,
   reputation |-> 50,
   status |-> "idle",
   evolutionHistory |-> <<>>,
   conversationMemory |-> <<>>,
   dominantBelief |-> "",
   trustBuilt |-> 0]

AgentNames ==
  <<"Agent0", "Agent1", "Agent2", "Agent3", "Agent4",
    "Agent5", "Agent6", "Agent7", "Agent8", "Agent9">>

makeTenAgents ==
  [i \in 0..9 |->
    [makeAgent EXCEPT
       !.id = i,
       !.name = AgentNames[i + 1],
       !.genome = [makeAgent.genome EXCEPT
                     !.minimalism = 50 + i * 3,
                     !.novelty = 50 + i * 2,
                     !.risk = 40 + i * 4,
                     !.ornamentation = 60 - i * 3,
                     !.marketFit = 50,
                     !.symmetry = 60]]]

\* The ten-agent roster late in a run: traits next to the clamp (as the clamp
\* tests set them) and trust that earlier wins and losses have moved.
SeasonedTenAgents ==
  [i \in 0..9 |->
    [makeTenAgents[i] EXCEPT
       !.genome = [makeTenAgents[i].genome EXCEPT
                     !.minimalism = IF i = 1 THEN 98 ELSE @,
                     !.risk = IF i = 0 THEN 2 ELSE @],
       !.trustBuilt = IF i = 0 THEN 90
                      ELSE IF i = 3 THEN 95
                      ELSE IF i = 9 THEN -10
                      ELSE 0]]

\* A three-agent roster: one agent with traits at both ends of the range, one
\* that lacks most traits, one as makeAgent builds it.
ThreeAgents ==
  [i \in 0..2 |->
    IF i = 0 THEN
      [makeAgent EXCEPT
         !.name = "Edge",
         !.genome = [makeAgent.genome EXCEPT
                       !.minimalism = 100, !.novelty = 98, !.ornamentation = 2,
                       !.marketFit = 97, !.symmetry = 3, !.risk = 0,
                       !.marginSens = 96],
         !.trustBuilt = 90]
    ELSE IF i = 1 THEN
      [makeAgent EXCEPT
         !.id = 1,
         !.name = "Sparse",
         !.styleTags = <<>>,
         !.genome = [minimalism |-> 1, risk |-> 97, platBias |-> 50],
         !.trustBuilt = 95]
    ELSE
      [makeAgent EXCEPT !.id = 2, !.name = "Plain"]]

OneAgent == [i \in 0..0 |-> makeAgent]

\* A roster of one agent that has a single trait.
BareAgent ==
  [i \in 0..0 |-> [makeAgent EXCEPT !.name = "Bare", !.genome = [risk |-> 40]]]

Rosters == {makeTenAgents, SeasonedTenAgents, ThreeAgents, OneAgent, BareAgent}

\* -------------------------------------------------------------- ranked designs

\* the value of a missing agentIdx: it equals no roster index
NoAgent == -1

makeDesign ==
  [name |-> "Test Design", cat |-> "Ring", agentIdx |-> 0, strategy |-> "explore",
   aesthetic |-> 80, novelty |-> 70, profit |-> 60, credits |-> 5000, rank |-> 1]

DesignNames == <<"D0", "D1", "D2", "D3", "D4", "D5", "D6", "D7", "D8", "D9">>

\* order.map((agentIdx, i) => makeDesign({agentIdx, rank: i + 1, credits: ..., name}))
\* a NoAgent in `order` gives a design without the agentIdx field
RankedDesigns(order) ==
  [i \in 1..Len(order) |->
    IF order[i] = NoAgent
    THEN [name |-> "Stray", cat |-> "Ring", strategy |-> "explore",
          aesthetic |-> 80, novelty |-> 70, profit |-> 60,
          credits |-> 20000 - (i - 1) * 1800, rank |-> i]
    ELSE [makeDesign EXCEPT
            !.agentIdx = order[i],
            !.rank = i,
            !.credits = 20000 - (i - 1) * 1800,
            !.name = DesignNames[order[i] + 1]]]

\* d.agentIdx, undefined when the design has no such field
AgentIdxOf(d) == IF "agentIdx" \in DOMAIN d THEN d.agentIdx ELSE NoAgent

\* The design lists a call is tried with, for a roster of n agents: every agent
\* in roster order, in reverse order, and the malformed lists: a single design
\* (of the last agent), a list with a duplicated and a missing agentIdx, and the
\* empty list.
DesignLists(n) ==
  { RankedDesigns([i \in 1..n |-> i - 1]),
    RankedDesigns([i \in 1..n |-> n - i]),
    RankedDesigns(<<n - 1>>),
    RankedDesigns(<<0, NoAgent, 0>>),
    <<>> }

CycleNums == 0..6

\* ------------------------------------------------------------ genome evolution

\* const winner = sortedDesigns[0]; idx === winner.agentIdx
IsWinner(idx, sortedDesigns) == idx = AgentIdxOf(sortedDesigns[1])

\* const loser = sortedDesigns[sortedDesigns.length - 1]; idx === loser.agentIdx
IsLoser(idx, sortedDesigns) == idx = AgentIdxOf(sortedDesigns[Len(sortedDesigns)])

\* faulty variant: the loser test comes first
ShiftsOfLoserFirst(rules, isWinner, isLoser) ==
  IF isLoser THEN rules.loser ELSE IF isWinner THEN rules.winner ELSE rules.others

\* isWinner ? rules.winner : isLoser ? rules.loser : rules.others
ShiftsOf(rules, isWinner, isLoser) ==
  IF isWinner THEN rules.winner ELSE IF isLoser THEN rules.loser ELSE rules.others

\* faulty variant: the floor at 0 is missing
ClampNoFloor(v) == Min(100, v)

\* Math.max(0, Math.min(100, v))
Clamp(v) == Max(0, Min(100, v))

\* faulty variant: a trait the agent lacks is created, shifted from 50
ShiftedGenomeCreating(genome, shifts) ==
  [t \in DOMAIN genome \cup DOMAIN shifts |->
    IF t \notin DOMAIN genome THEN Clamp(50 + shifts[t])
    ELSE IF t \in DOMAIN shifts THEN Clamp(genome[t] + shifts[t])
    ELSE genome[t]]

\* the loop over Object.entries(shifts): the traits the agent has are shifted
\* and clamped, a trait it lacks is not created
ShiftedGenome(genome, shifts) ==
  [t \in DOMAIN genome |->
    IF t \in DOMAIN shifts THEN Clamp(genome[t] + shifts[t]) ELSE genome[t]]

\* faulty variant: the rule's nominal delta is recorded
GenomeShiftsNominal(genome, shifted, shifts) ==
  [t \in DOMAIN shifts \cap DOMAIN genome |-> shifts[t]]

\* genomeShifts[key] = agent[key] - oldVal, for the traits the loop touched
GenomeShiftsOf(genome, shifted, shifts) ==
  [t \in DOMAIN shifts \cap DOMAIN genome |-> shifted[t] - genome[t]]

\* rules.beliefs[idx] || 'Adapting to market signals'
BeliefOf(rules, idx) ==
  IF idx + 1 \in DOMAIN rules.beliefs THEN rules.beliefs[idx + 1] ELSE FallbackBelief

\* faulty variant: the winner gets the same 5 as the others
TrustOfNoBonus(trustBuilt, isWinner, isLoser) ==
  Min(100, trustBuilt + (IF isLoser THEN -5 ELSE 5))

\* faulty variant: trust is floored at 0
TrustOfFloored(trustBuilt, isWinner, isLoser) ==
  Max(0, Min(100, trustBuilt + (IF isWinner THEN 15 ELSE IF isLoser THEN -5 ELSE 5)))

\* faulty variant: the cap at 100 is missing
TrustOfNoCap(trustBuilt, isWinner, isLoser) ==
  trustBuilt + (IF isWinner THEN 15 ELSE IF isLoser THEN -5 ELSE 5)

\* Math.min(100, (agent.trustBuilt || 0) + (isWinner ? 15 : isLoser ? -5 : 5))
TrustOf(trustBuilt, isWinner, isLoser) ==
  Min(100, trustBuilt + (IF isWinner THEN 15 ELSE IF isLoser THEN -5 ELSE 5))

\* sortedDesigns.find((d) => d.agentIdx === idx), NoDesign for undefined
NoDesign == [undefined |-> TRUE]

MyDesignOf(sortedDesigns, idx) ==
  LET hits == {k \in 1..Len(sortedDesigns) : AgentIdxOf(sortedDesigns[k]) = idx}
  IN  IF hits = {} THEN NoDesign
      ELSE sortedDesigns[CHOOSE k \in hits : \A j \in hits : k <= j]

\* myDesign?.name || '--'
NameOf(d) == IF "name" \in DOMAIN d THEN d.name ELSE "--"

\* myDesign?.rank || 0 (the summary prints a rank of 0 as '?')
RankOf(d) == IF "rank" \in DOMAIN d THEN d.rank ELSE 0

\* myDesign?.credits?.toLocaleString() || 0
CreditsOf(d) == IF "credits" \in DOMAIN d THEN d.credits ELSE 0

\* the three summary templates, as the template and the values it prints
SummaryOf(isWinner, isLoser, myDesign) ==
  IF isWinner
  THEN [template |-> "Won with NAME (CREDITS). Genome reinforced.",
        name |-> NameOf(myDesign), credits |-> CreditsOf(myDesign)]
  ELSE IF isLoser
  THEN [template |-> "Last place with NAME. Mutation pressure applied.",
        name |-> NameOf(myDesign)]
  ELSE [template |-> "Ranked #RANK with NAME. Adaptive shifts applied.",
        rank |-> RankOf(myDesign), name |-> NameOf(myDesign)]

\* the record agent.evolutionHistory.push(...) appends
EvolutionRecord(cycleNum, isWinner, isLoser, myDesign, genomeShifts) ==
  [cycle |-> cycleNum,
   summary |-> SummaryOf(isWinner, isLoser, myDesign),
   genomeShifts |-> genomeShifts,
   rank |-> RankOf(myDesign),
   designName |-> NameOf(myDesign)]

\* faulty variant: the partner is the agent before, not the agent after
ConversationRecordPreviousAgent(cycleNum, idx, agents) ==
  LET n == Cardinality(DOMAIN agents)
      partner == agents[(idx + n - 1) % n].name
  IN  IF cycleNum = 1
      THEN [cycle |-> 1, partner |-> partner,
            excerpt |-> <<"First cycle cold start -- exploring identity">>]
      ELSE [cycle |-> cycleNum, partner |-> partner,
            excerpt |-> <<"Referenced C", cycleNum - 1,
                          " winner and trend data in design dialogue">>]

\* the record agent.conversationMemory.push(...) appends, in both branches
ConversationRecord(cycleNum, idx, agents) ==
  LET partner == agents[(idx + 1) % Cardinality(DOMAIN agents)].name
  IN  IF cycleNum = 1
      THEN [cycle |-> 1, partner |-> partner,
            excerpt |-> <<"First cycle cold start -- exploring identity">>]
      ELSE [cycle |-> cycleNum, partner |-> partner,
            excerpt |-> <<"Referenced C", cycleNum - 1,
                          " winner and trend data in design dialogue">>]

\* faulty variant: unshift, the record goes to the front
PushFront(list, record) == <<record>> \o list

\* Array.prototype.push on a history list
Push(list, record) == Append(list, record)

\* the body of agentStates.forEach((agent, idx) => ...) for one agent
EvolveAgent(agent, idx, cycleNum, rules, sortedDesigns, agents) ==
  LET isWinner == IsWinner(idx, sortedDesigns)
      isLoser == IsLoser(idx, sortedDesigns)
      shifts == ShiftsOf(rules, isWinner, isLoser)
      shifted == ShiftedGenome(agent.genome, shifts)
      genomeShifts == GenomeShiftsOf(agent.genome, shifted, shifts)
      myDesign == MyDesignOf(sortedDesigns, idx)
  IN  [agent EXCEPT
         !.genome = shifted,
         !.dominantBelief = BeliefOf(rules, idx),
         !.trustBuilt = TrustOf(agent.trustBuilt, isWinner, isLoser),
         !.evolutionHistory =
            Push(@, EvolutionRecord(cycleNum, isWinner, isLoser, myDesign, genomeShifts)),
         !.conversationMemory = Push(@, ConversationRecord(cycleNum, idx, agents))]

\* faulty variant: the push sits inside the forEach, one capture per agent
PushSnapshotPerAgent(snapshots, agents, store) ==
  snapshots \o [i \in 1..Cardinality(DOMAIN agents) |-> SnapshotRoster(agents, store)]

\* genomeSnapshots.push(agentStates.map((a) => snapshotGenome(a)))
PushSnapshot(snapshots, agents, store) ==
  Append(snapshots, SnapshotRoster(agents, store))

\* One call of evolveAgentGenomes(cycleNum, sortedDesigns, agentStates,
\* genomeSnapshots).  Without a rule it returns before touching anything.  With
\* a rule and an empty design list, winner is undefined and winner.agentIdx
\* throws a TypeError at the first agent, before any assignment.  Otherwise
\* every agent is evolved and one roster capture is pushed.
evolveAgentGenomes(cycleNum, sortedDesigns) ==
  LET rules == RulesOf(cycleNum)
      outcome == IF rules = NoRules THEN "no rules"
                 ELSE IF sortedDesigns = <<>> THEN "TypeError"
                 ELSE "evolved"
      evolved == [idx \in DOMAIN agentStates |->
                   EvolveAgent(agentStates[idx], idx, cycleNum, rules,
                               sortedDesigns, agentStates)]
  IN  /\ calls < MaxCalls
      /\ calls' = calls + 1
      /\ before' = agentStates
      /\ processed' = IF outcome = "evolved" THEN processed + 1 ELSE processed
      /\ call' = [fn |-> "evolveAgentGenomes", cycleNum |-> cycleNum,
                  sortedDesigns |-> sortedDesigns, outcome |-> outcome]
      /\ IF outcome = "evolved"
         THEN /\ agentStates' = evolved
              /\ genomeSnapshots' = PushSnapshot(genomeSnapshots, agentStates', arrays)
              /\ arrays' = SpreadStyleTags(agentStates', arrays)
         ELSE UNCHANGED <<agentStates, genomeSnapshots, arrays>>
      /\ UNCHANGED outsideEvolution

\* --------------------------------------------------------- pattern retrieval
\* Scores are held in hundredths (1.5 is 150) and a confidence in hundredths
\* (0.85 is 85), so that every sum of the source is an integer here.

\* Longest pattern bank explored.
MaxBank == 4

\* value || 50: a missing field and a 0 both give 50
OrFifty(rec, t) == IF t \in DOMAIN rec /\ rec[t] # 0 THEN rec[t] ELSE 50

\* p.genomeTraits?.[t]: a pattern without genomeTraits has no trait at all
GenomeTraitsOf(p) == IF "genomeTraits" \in DOMAIN p THEN p.genomeTraits ELSE << >>

\* s.split(','), on the marketFocus strings of the rosters
SplitComma(s) ==
  CASE s = "Ring" -> <<"Ring">>
    [] s = "Pendant,Ring" -> <<"Pendant", "Ring">>
    [] s = "Bracelet,Earrings,Ring" -> <<"Bracelet", "Earrings", "Ring">>
    [] OTHER -> <<s>>

\* faulty variant: the whole marketFocus string, not its first segment
FocusOfWhole(agent) ==
  IF "marketFocus" \in DOMAIN agent THEN agent.marketFocus ELSE ""

\* (agent.marketFocus || '').split(',')[0]
FocusOf(agent) ==
  SplitComma(IF "marketFocus" \in DOMAIN agent THEN agent.marketFocus ELSE "")[1]

\* faulty variant: the thresholds 65 and 35 are included
AgentStrategyInclusive(agent) ==
  IF "risk" \notin DOMAIN agent.genome THEN "mutate"
  ELSE IF agent.genome.risk >= 65 THEN "explore"
  ELSE IF agent.genome.risk <= 35 THEN "exploit"
  ELSE "mutate"

\* agent.risk > 65 ? 'explore' : agent.risk < 35 ? 'exploit' : 'mutate'
\* (a comparison with undefined is false, so a missing risk gives 'mutate')
AgentStrategy(agent) ==
  IF "risk" \notin DOMAIN agent.genome THEN "mutate"
  ELSE IF agent.genome.risk > 65 THEN "explore"
  ELSE IF agent.genome.risk < 35 THEN "exploit"
  ELSE "mutate"

TraitPairs ==
  <<"novelty", "marketFit", "risk", "platBias", "manufacturability", "wearability">>

\* the number of trait pairs within 15 of each other
CloseTraits(agent, p) ==
  Cardinality({k \in 1..Len(TraitPairs) :
                 Abs(OrFifty(agent.genome, TraitPairs[k])
                     - OrFifty(GenomeTraitsOf(p), TraitPairs[k])) <= 15})

\* the score of one stored pattern for one agent, in hundredths
RelevanceScore(agent, p, cycleReportsLength) ==
  p.confidence * 2
  + (IF p.rank <= 3 THEN 150 ELSE 50)
  + (IF p.category = FocusOf(agent) THEN 300 ELSE 0)
  + (IF p.strategy = AgentStrategy(agent) THEN 200 ELSE 0)
  + 100 * CloseTraits(agent, p)
  + (IF p.cycle = cycleReportsLength THEN 100 ELSE 0)

\* patternBank.map((p) => ({ ...p, relevanceScore: score })): new objects
ScoredPatterns(agent, bank, cycleReportsLength) ==
  [k \in 1..Len(bank) |->
     [f \in DOMAIN bank[k] \cup {"relevanceScore"} |->
        IF f = "relevanceScore"
        THEN RelevanceScore(agent, bank[k], cycleReportsLength)
        ELSE bank[k][f]]]

\* where a stable descending sort puts e among the already sorted entries
RECURSIVE InsertByScore(_, _)
InsertByScore(sorted, e) ==
  IF sorted = <<>> THEN <<e>>
  ELSE IF Head(sorted).relevanceScore >= e.relevanceScore
       THEN <<Head(sorted)>> \o InsertByScore(Tail(sorted), e)
       ELSE <<e>> \o sorted

\* faulty variant: the comparator is a.relevanceScore - b.relevanceScore
RECURSIVE SortByScoreAscending(_)
SortByScoreAscending(scored) ==
  IF scored = <<>> THEN <<>>
  ELSE LET rest == SortByScoreAscending(SubSeq(scored, 1, Len(scored) - 1))
           e == scored[Len(scored)]
           before_e == SelectSeq(rest, LAMBDA x : x.relevanceScore <= e.relevanceScore)
           after_e == SelectSeq(rest, LAMBDA x : x.relevanceScore > e.relevanceScore)
       IN  before_e \o <<e>> \o after_e

\* scored.sort((a, b) => b.relevanceScore - a.relevanceScore); the sort of
\* the language is stable, entries of equal score keep their bank order
RECURSIVE SortByScore(_)
SortByScore(scored) ==
  IF scored = <<>> THEN <<>>
  ELSE InsertByScore(SortByScore(SubSeq(scored, 1, Len(scored) - 1)),
                     scored[Len(scored)])

\* scored.slice(0, 3)
Top3(sorted) == SubSeq(sorted, 1, Min(3, Len(sorted)))

\* s.toUpperCase(), on the strategy names
ToUpperCase(s) ==
  CASE s = "exploit" -> "EXPLOIT"
    [] s = "explore" -> "EXPLORE"
    [] s = "mutate" -> "MUTATE"
    [] OTHER -> s

\* The returned text, as its parts: nothing for the empty string, else the
\* header and one entry per pattern of top3.  The score is not printed.
PatternContext(top3, bankLength) ==
  <<[top |-> Len(top3), stored |-> bankLength]>>
  \o [i \in 1..Len(top3) |->
        [n |-> i, cycle |-> top3[i].cycle, rank |-> top3[i].rank,
         category |-> top3[i].category, credits |-> top3[i].credits,
         confidencePct |-> top3[i].confidence,
         strategy |-> ToUpperCase(top3[i].strategy)]]

\* faulty variant: p.relevanceScore = score, written to the stored entries
BankAfterScoredInPlace(bank, scored) == scored

\* The caller's bank after the call: map and the spread { ...p } build a new
\* array of new objects, and it is that array which is sorted and sliced.
BankAfter(bank, scored) == bank

NoRetrieval ==
  [fn |-> "none", agent |-> makeAgent, cycleReportsLength |-> 0,
   scored |-> <<>>, top3 |-> <<>>, result |-> <<>>]

\* One call of retrievePatterns(agent, patternBank, cycleReportsLength).  The
\* locals scored (as mapped, before the sort) and top3 are kept next to the
\* result.
retrievePatterns(agent, cycleReportsLength) ==
  LET scored == ScoredPatterns(agent, patternBank, cycleReportsLength)
      top3 == Top3(SortByScore(scored))
  IN  /\ retrieval' =
           IF Len(patternBank) = 0
           THEN [fn |-> "retrievePatterns", agent |-> agent,
                 cycleReportsLength |-> cycleReportsLength,
                 scored |-> <<>>, top3 |-> <<>>, result |-> <<>>]
           ELSE [fn |-> "retrievePatterns", agent |-> agent,
                 cycleReportsLength |-> cycleReportsLength,
                 scored |-> scored, top3 |-> top3,
                 result |-> PatternContext(top3, Len(patternBank))]
      /\ patternBank' = IF Len(patternBank) = 0 THEN patternBank
                        ELSE BankAfter(patternBank, scored)
      /\ UNCHANGED outsidePatterns

\* Stored precedents, after the fixtures of the tests: confidence in
\* hundredths, genomeTraits partial, empty or absent.
Patterns ==
  {[cycle |-> 1, rank |-> 1, category |-> "Ring", strategy |-> "mutate",
    confidence |-> 85, credits |-> 5000,
    genomeTraits |-> [novelty |-> 55, marketFit |-> 60, risk |-> 50]],
   [cycle |-> 1, rank |-> 2, category |-> "Bracelet", strategy |-> "mutate",
    confidence |-> 50, credits |-> 5000, genomeTraits |-> << >>],
   [cycle |-> 2, rank |-> 4, category |-> "Pendant", strategy |-> "explore",
    confidence |-> 90, credits |-> 10000,
    genomeTraits |-> [novelty |-> 0, risk |-> 90, wearability |-> 20]],
   [cycle |-> 1, rank |-> 5, category |-> "Ring", strategy |-> "exploit",
    confidence |-> 70, credits |-> 8000]}

RECURSIVE BanksOfLength(_)
BanksOfLength(n) ==
  IF n = 0 THEN {<<>>}
  ELSE {Append(b, p) : b \in BanksOfLength(n - 1), p \in Patterns}

Banks == UNION {BanksOfLength(n) : n \in 0..MaxBank}

\* The agents a bank is scored for: the fixture, a risk-taker with a
\* two-segment market focus, one with traits at 0 and no market focus, one
\* with risk at the upper threshold and one with low risk.
PatternAgents ==
  {makeAgent,
   [makeAgent EXCEPT !.name = "Explorer", !.marketFocus = "Pendant,Ring",
                     !.genome.risk = 70, !.genome.novelty = 10],
   [makeAgent EXCEPT !.name = "Zero", !.marketFocus = "",
                     !.genome.risk = 35, !.genome.novelty = 0,
                     !.genome.wearability = 0],
   [makeAgent EXCEPT !.name = "Edge", !.genome.risk = 65],
   [makeAgent EXCEPT !.name = "Cautious", !.genome.risk = 20]}

CycleIndexes == 0..2

\* -------------------------------------------------------- trait effectiveness
\* correlation, cumulativeCorrelation and importanceWeight are held as
\* integers in units of 1 / Scale, fine enough for every blend of the bound to
\* be exact; lastCycleValue, a mean of at most three integers, in sixths.

\* Longest sequence of computeTraitEffectiveness calls explored.
MaxTraitCalls == 3

Scale == 1000 * 10 ^ (MaxTraitCalls + 1)

\* const traits = [...], in the order the records are created
TraitNames ==
  <<"minimalism", "novelty", "ornamentation", "marketFit", "symmetry", "platBias",
    "coloredStone", "diamond", "mixedMetal", "risk", "marginSens", "complexBudget",
    "pricePoint", "manufacturability", "wearability", "trendSens">>

Range(seq) == {seq[i] : i \in 1..Len(seq)}

\* agentStates[d.agentIdx] is an agent of the roster
Resolves(agents, d) == AgentIdxOf(d) \in DOMAIN agents

\* a ? (a[trait] ?? 50) : 50
TraitValueOf(agents, d, trait) ==
  IF Resolves(agents, d) /\ trait \in DOMAIN agents[AgentIdxOf(d)].genome
  THEN agents[AgentIdxOf(d)].genome[trait]
  ELSE 50

\* sortedDesigns.slice(0, 3).map((d) => agentStates[d.agentIdx]).filter(Boolean),
\* as the designs whose agent resolves
Top3Authors(agents, sortedDesigns) ==
  SelectSeq(SubSeq(sortedDesigns, 1, Min(3, Len(sortedDesigns))),
            LAMBDA d : Resolves(agents, d))

\* faulty variant: the mean is taken over the authors of all the designs
WinnerAvgAllDesigns(agents, sortedDesigns, trait) ==
  LET authors == SelectSeq(sortedDesigns, LAMBDA d : Resolves(agents, d))
  IN  IF Len(authors) > 0
      THEN (6 * Sum([i \in 1..Len(authors) |-> TraitValueOf(agents, authors[i], trait)]))
           \div Len(authors)
      ELSE 300

\* winnerAvg, in sixths
WinnerAvg(agents, sortedDesigns, trait) ==
  LET top3 == Top3Authors(agents, sortedDesigns)
  IN  IF Len(top3) > 0
      THEN (6 * Sum([i \in 1..Len(top3) |-> TraitValueOf(agents, top3[i], trait)]))
           \div Len(top3)
      ELSE 300

\* currentCorr, in units of 1 / Scale
CurrentCorr(agents, sortedDesigns, trait) ==
  pearsonCorr([i \in 1..Len(sortedDesigns) |-> TraitValueOf(agents, sortedDesigns[i], trait)],
              [i \in 1..Len(sortedDesigns) |-> CreditsOf(sortedDesigns[i])])
  * (Scale \div 1000)

\* faulty variant: the thresholds are 0.5 and -0.5
DirectionOfWide(c) ==
  IF 2 * c > Scale THEN "positive"
  ELSE IF 2 * c < -Scale THEN "negative"
  ELSE "neutral"

\* c > 0.1 ? 'positive' : c < -0.1 ? 'negative' : 'neutral'
DirectionOf(c) ==
  IF 10 * c > Scale THEN "positive"
  ELSE IF 10 * c < -Scale THEN "negative"
  ELSE "neutral"

\* faulty variant: the first record starts with samples at 0
FirstObservationNoSample(currentCorr, winnerAvg) ==
  [correlation |-> currentCorr,
   cumulativeCorrelation |-> currentCorr,
   direction |-> DirectionOf(currentCorr),
   importanceWeight |-> Abs(currentCorr),
   lastCycleValue |-> winnerAvg,
   samples |-> 0]

\* the record of a trait seen for the first time
FirstObservation(currentCorr, winnerAvg) ==
  [correlation |-> currentCorr,
   cumulativeCorrelation |-> currentCorr,
   direction |-> DirectionOf(currentCorr),
   importanceWeight |-> Abs(currentCorr),
   lastCycleValue |-> winnerAvg,
   samples |-> 1]

\* faulty variant: the weights are 0.6 and 0.5
BlendHeavy(prevCumulative, currentCorr) == (6 * prevCumulative + 5 * currentCorr) \div 10

\* prevWeight * prev.cumulativeCorrelation + newWeight * currentCorr
Blend(prevCumulative, currentCorr) == (6 * prevCumulative + 4 * currentCorr) \div 10

\* faulty variant: the new correlation is added to the old one, unweighted
NextObservationSummed(prev, currentCorr, winnerAvg) ==
  LET cumulative == prev.cumulativeCorrelation + currentCorr
  IN  [correlation |-> currentCorr,
       cumulativeCorrelation |-> cumulative,
       direction |-> DirectionOf(cumulative),
       importanceWeight |-> (7 * Abs(cumulative) + 3 * Abs(currentCorr)) \div 10,
       lastCycleValue |-> winnerAvg,
       samples |-> prev.samples + 1]

\* faulty variant: samples is left as it was
NextObservationSameSamples(prev, currentCorr, winnerAvg) ==
  LET cumulative == Blend(prev.cumulativeCorrelation, currentCorr)
  IN  [correlation |-> currentCorr,
       cumulativeCorrelation |-> cumulative,
       direction |-> DirectionOf(cumulative),
       importanceWeight |-> (7 * Abs(cumulative) + 3 * Abs(currentCorr)) \div 10,
       lastCycleValue |-> winnerAvg,
       samples |-> prev.samples]

\* the record of a trait that already has one
NextObservation(prev, currentCorr, winnerAvg) ==
  LET cumulative == Blend(prev.cumulativeCorrelation, currentCorr)
  IN  [correlation |-> currentCorr,
       cumulativeCorrelation |-> cumulative,
       direction |-> DirectionOf(cumulative),
       importanceWeight |-> (7 * Abs(cumulative) + 3 * Abs(currentCorr)) \div 10,
       lastCycleValue |-> winnerAvg,
       samples |-> prev.samples + 1]

\* faulty variant: the first record is built like a later one, from zeros
ObserveFromZero(te, agents, sortedDesigns, trait) ==
  NextObservation(IF trait \in DOMAIN te THEN te[trait]
                  ELSE [cumulativeCorrelation |-> 0, samples |-> 0],
                  CurrentCorr(agents, sortedDesigns, trait),
                  WinnerAvg(agents, sortedDesigns, trait))

\* the body of traits.forEach for one trait
Observe(te, agents, sortedDesigns, trait) ==
  IF trait \notin DOMAIN te
  THEN FirstObservation(CurrentCorr(agents, sortedDesigns, trait),
                        WinnerAvg(agents, sortedDesigns, trait))
  ELSE NextObservation(te[trait],
                       CurrentCorr(agents, sortedDesigns, trait),
                       WinnerAvg(agents, sortedDesigns, trait))

\* One call of computeTraitEffectiveness(cycleNum, sortedDesigns, agentStates,
\* traitEffectiveness): every trait of the list gets or updates its record;
\* a record under another key is left alone.  cycleNum is not used.
computeTraitEffectiveness(cycleNum, sortedDesigns) ==
  /\ Len(traitLog) < MaxTraitCalls
  /\ traitEffectiveness' =
       [t \in DOMAIN traitEffectiveness \cup Range(TraitNames) |->
          IF t \in Range(TraitNames)
          THEN Observe(traitEffectiveness, agentStates, sortedDesigns, t)
          ELSE traitEffectiveness[t]]
  /\ traitLog' = Append(traitLog,
                        [cycleNum |-> cycleNum, sortedDesigns |-> sortedDesigns,
                         agents |-> agentStates, before |-> traitEffectiveness,
                         after |-> traitEffectiveness'])
  /\ UNCHANGED outsideTraits

\* Ranked designs with their tallied credits; NoAgent gives a design without
\* agentIdx.
TalliedDesigns(order, credits) ==
  [i \in 1..Len(order) |->
     IF order[i] = NoAgent
     THEN [name |-> "Stray", credits |-> credits[i], rank |-> i]
     ELSE [agentIdx |-> order[i], name |-> DesignNames[order[i] + 1],
           credits |-> credits[i], rank |-> i]]

\* The ranked lists a roster of n agents is scored with: one design per agent
\* in reverse roster order with uneven credits, four designs with a tie, an
\* unresolved author and a repeated one, and none.
TraitDesignLists(n) ==
  {TalliedDesigns([i \in 1..n |-> n - i], SubSeq(<<5, 2, 1>>, 1, n)),
   TalliedDesigns(<<0, NoAgent, n - 1, 0>>, <<4, 3, 3, 1>>),
   <<>>}

\* A record as the formatter's tests write it by hand, values in units of
\* 1 / 1000 and lastCycleValue a whole number.
HandMade(cumulative, importance, samples) ==
  [correlation |-> cumulative * (Scale \div 1000),
   cumulativeCorrelation |-> cumulative * (Scale \div 1000),
   direction |-> DirectionOf(cumulative * (Scale \div 1000)),
   importanceWeight |-> importance * (Scale \div 1000),
   lastCycleValue |-> 6 * 55,
   samples |-> samples]

\* The maps a run starts from: empty, or one hand-made record under the first
\* trait of the list (so that the key order is the order of TraitNames).
TraitMaps ==
  {<< >>,
   [t \in {"minimalism"} |-> HandMade(300, 400, 2)]}

\* ------------------------------------------------- trait effectiveness report

\* null or undefined passed where an object is expected
Absent == [null |-> TRUE]

\* Object.entries(traitEffectiveness).filter(([, v]) => v.samples > 0).map(...),
\* in key order
TraitEntries(te, agent) ==
  LET keys == SelectSeq(TraitNames, LAMBDA t : t \in DOMAIN te /\ te[t].samples > 0)
  IN  [k \in 1..Len(keys) |->
         [trait |-> keys[k],
          correlation |-> te[keys[k]].cumulativeCorrelation,
          importance |-> te[keys[k]].importanceWeight,
          winnerAvg |-> te[keys[k]].lastCycleValue,
          agentVal |-> IF keys[k] \in DOMAIN agent.genome
                       THEN agent.genome[keys[k]] ELSE 50,
          samples |-> te[keys[k]].samples,
          direction |-> te[keys[k]].direction]]

\* where a stable descending sort puts e among the already sorted entries
RECURSIVE InsertByImportance(_, _)
InsertByImportance(sorted, e) ==
  IF sorted = <<>> THEN <<e>>
  ELSE IF Head(sorted).importance >= e.importance
       THEN <<Head(sorted)>> \o InsertByImportance(Tail(sorted), e)
       ELSE <<e>> \o sorted

\* .sort((a, b) => b.importance - a.importance)
RECURSIVE SortByImportance(_)
SortByImportance(entries) ==
  IF entries = <<>> THEN <<>>
  ELSE InsertByImportance(SortByImportance(SubSeq(entries, 1, Len(entries) - 1)),
                          entries[Len(entries)])

\* .slice(0, 8)
Top8(sorted) == SubSeq(sorted, 1, Min(8, Len(sorted)))

\* faulty variant: the samples test is dropped
IsProvenAnySamples(e) == 10 * e.importance > 4 * Scale

\* e.importance > 0.4 && e.samples >= 2
IsProven(e) == 10 * e.importance > 4 * Scale /\ e.samples >= 2

\* the text of one entry, as its parts
TraitLine(e) ==
  LET delta == 6 * e.agentVal - e.winnerAvg
  IN  [trait |-> e.trait,
       corr |-> RoundDiv(e.correlation, Scale \div 100),
       dir |-> IF 10 * e.correlation > Scale THEN "POSITIVE (higher = more credits)"
               ELSE IF 10 * e.correlation < -Scale THEN "NEGATIVE (lower = more credits)"
               ELSE "NEUTRAL",
       winnersAvg |-> RoundDiv(e.winnerAvg, 6),
       you |-> e.agentVal,
       vs |-> IF delta > 30 THEN <<"above winners by ", RoundDiv(delta, 6)>>
              ELSE IF delta < -30 THEN <<"below winners by ", RoundDiv(-delta, 6)>>
              ELSE <<"aligned with winners">>,
       ewc |-> IF IsProven(e) THEN " PROVEN -- shift cautiously" ELSE ""]

\* traitEffectivenessContext(agentIdx, traitEffectiveness, agentStates): the
\* returned text as its parts, nothing for the empty string, else a header
\* and one line per entry.
TraitContextText(agentIdx, te, agents) ==
  IF te = Absent \/ DOMAIN te = {} THEN <<>>
  ELSE IF agentIdx \notin DOMAIN agents THEN <<>>
  ELSE LET entries == Top8(SortByImportance(TraitEntries(te, agents[agentIdx])))
       IN  IF Len(entries) = 0 THEN <<>>
           ELSE <<[title |-> "GENOME TRAIT EFFECTIVENESS",
                   samples |-> entries[1].samples,
                   unit |-> IF entries[1].samples > 1 THEN "cycles" ELSE "cycle"]>>
                \o [i \in 1..Len(entries) |-> TraitLine(entries[i])]

NoContext == [fn |-> "none", result |-> <<>>]

\* One call of traitEffectivenessContext on the roster.
traitEffectivenessContext(agentIdx, te) ==
  /\ context' = [fn |-> "traitEffectivenessContext", agentIdx |-> agentIdx,
                 traitEffectiveness |-> te,
                 result |-> TraitContextText(agentIdx, te, agentStates)]
  /\ UNCHANGED outsideContext

\* -------------------------------------------------------- reinforcement grid
\* avgCredits is held in halves (2500.5 is 5001).

\* Most cells with samples in a table explored.
MaxCells == 2

Strategies == <<"exploit", "explore", "mutate">>

Categories == <<"Ring", "Pendant", "Earrings", "Bracelet">>

initQTable ==
  [s \in Range(Strategies) |->
     [c \in Range(Categories) |->
        [totalCredits |-> 0, count |-> 0, avgCredits |-> 0, lastCycle |-> 0]]]

\* the cells in the order Object.entries walks them
CellKeys ==
  [k \in 1..(Len(Strategies) * Len(Categories)) |->
     [strat |-> Strategies[((k - 1) \div Len(Categories)) + 1],
      cat |-> Categories[((k - 1) % Len(Categories)) + 1]]]

\* the cells of the table with count > 0, in that order
Sampled(table) == SelectSeq(CellKeys, LAMBDA k : table[k.strat][k.cat].count > 0)

\* bestCombo after the cells in keys, starting from best at bestAvg: a cell
\* takes over when its avgCredits is strictly greater
RECURSIVE BestAfter(_, _, _, _)
BestAfter(table, keys, best, bestAvg) ==
  IF keys = <<>> THEN best
  ELSE IF table[Head(keys).strat][Head(keys).cat].avgCredits > bestAvg
       THEN BestAfter(table, Tail(keys), Head(keys),
                      table[Head(keys).strat][Head(keys).cat].avgCredits)
       ELSE BestAfter(table, Tail(keys), best, bestAvg)

\* let bestCombo = null, bestAvg = 0, and the walk over the sampled cells
BestCombo(table) == BestAfter(table, Sampled(table), Absent, 0)

\* the entry pushed for the cell at key k
GridEntry(table, k) ==
  [strat |-> k.strat, cat |-> k.cat,
   avg |-> MathRound(table[k.strat][k.cat].avgCredits, 2),
   count |-> table[k.strat][k.cat].count,
   lastCycle |-> table[k.strat][k.cat].lastCycle]

\* where a stable descending sort puts e among the already sorted entries
RECURSIVE InsertByAvg(_, _)
InsertByAvg(sorted, e) ==
  IF sorted = <<>> THEN <<e>>
  ELSE IF Head(sorted).avg >= e.avg THEN <<Head(sorted)>> \o InsertByAvg(Tail(sorted), e)
       ELSE <<e>> \o sorted

\* entries.sort((a, b) => b.avg - a.avg)
RECURSIVE SortByAvg(_)
SortByAvg(entries) ==
  IF entries = <<>> THEN <<>>
  ELSE InsertByAvg(SortByAvg(SubSeq(entries, 1, Len(entries) - 1)),
                   entries[Len(entries)])

\* the line of one entry; the star of the source is written " *"
GridLine(e, best) ==
  [strat |-> ToUpperCase(e.strat), cat |-> e.cat, avg |-> e.avg, count |-> e.count,
   unit |-> IF e.count > 1 THEN "samples" ELSE "sample",
   star |-> IF best # Absent /\ e.strat = best.strat /\ e.cat = best.cat
            THEN " *" ELSE ""]

\* the per-strategy averages, for the strategies that have sampled cells
StrategyAverages(table) ==
  LET sampledOf(s) == SelectSeq(Sampled(table), LAMBDA k : k.strat = s)
      withData == SelectSeq(Strategies, LAMBDA s : Len(sampledOf(s)) > 0)
  IN  [i \in 1..Len(withData) |->
         [strat |-> ToUpperCase(withData[i]),
          avg |-> MathRound(Sum([j \in 1..Len(sampledOf(withData[i])) |->
                                   table[withData[i]][sampledOf(withData[i])[j].cat].avgCredits]),
                            2 * Len(sampledOf(withData[i])))]]

\* faulty variant: the entries.length === 0 return is missing
QTableTextAlwaysTitled(table) ==
  IF table = Absent \/ DOMAIN table = {} THEN <<>>
  ELSE LET entries == SortByAvg([i \in 1..Len(Sampled(table)) |->
                                   GridEntry(table, Sampled(table)[i])])
       IN  <<[title |-> "Q-TABLE MARKET INTELLIGENCE"]>>
           \o [i \in 1..Len(entries) |-> GridLine(entries[i], BestCombo(table))]
           \o (IF Len(StrategyAverages(table)) > 0
               THEN <<[averages |-> StrategyAverages(table)]>> ELSE <<>>)

\* qTableContext(qTable): the returned text as its parts, nothing for the
\* empty string, else the title, one line per sampled cell and the line of
\* strategy averages.
QTableText(table) ==
  IF table = Absent \/ DOMAIN table = {} THEN <<>>
  ELSE LET entries == SortByAvg([i \in 1..Len(Sampled(table)) |->
                                   GridEntry(table, Sampled(table)[i])])
       IN  IF Len(entries) = 0 THEN <<>>
           ELSE <<[title |-> "Q-TABLE MARKET INTELLIGENCE"]>>
                \o [i \in 1..Len(entries) |-> GridLine(entries[i], BestCombo(table))]
                \o (IF Len(StrategyAverages(table)) > 0
                    THEN <<[averages |-> StrategyAverages(table)]>> ELSE <<>>)

\* One call of qTableContext.
qTableContext(table) ==
  /\ context' = [fn |-> "qTableContext", qTable |-> table, result |-> QTableText(table)]
  /\ UNCHANGED outsideContext

\* The cells a caller writes into the table: the tallies of the tests, one
\* with an odd total over two samples, and one sample that earned no credits.
Cells ==
  {[totalCredits |-> 5000, count |-> 2, avgCredits |-> 5000, lastCycle |-> 1],
   [totalCredits |-> 8000, count |-> 1, avgCredits |-> 16000, lastCycle |-> 1],
   [totalCredits |-> 5001, count |-> 2, avgCredits |-> 5001, lastCycle |-> 2],
   [totalCredits |-> 0, count |-> 1, avgCredits |-> 0, lastCycle |-> 2]}

\* qt[strat][cat] = cell
setCell(strat, cat, cell) ==
  /\ qTable[strat][cat].count = 0
  /\ Len(Sampled(qTable)) < MaxCells
  /\ qTable' = [qTable EXCEPT ![strat][cat] = cell]
  /\ UNCHANGED outsideGrid

\* ------------------------------------------------------------ caller's edits
\* What the code around the engine may do to the objects it holds.  None of
\* these goes through snapshotGenome or evolveAgentGenomes.

EditTags == {"added"}

EditTraits == {"minimalism", "risk"}

EditValues == {0, 77}

\* the part of `call` an edit leaves at its idle value
EditCall(fn) == [fn |-> fn, cycleNum |-> 0, sortedDesigns |-> <<>>, outcome |-> "edited"]

\* agent.styleTags.push(tag) on the live agent at idx
pushAgentStyleTag(idx, tag) ==
  /\ calls < MaxCalls
  /\ calls' = calls + 1
  /\ before' = agentStates
  /\ call' = EditCall("pushAgentStyleTag")
  /\ arrays' = [arrays EXCEPT ![agentStates[idx].styleTags] = Append(@, tag)]
  /\ UNCHANGED <<agentStates, genomeSnapshots, processed>>
  /\ UNCHANGED outsideEvolution

\* snap.styleTags.push(tag) on the snapshot of agent idx in log entry e
pushSnapshotStyleTag(e, idx, tag) ==
  /\ calls < MaxCalls
  /\ calls' = calls + 1
  /\ before' = agentStates
  /\ call' = EditCall("pushSnapshotStyleTag")
  /\ arrays' = [arrays EXCEPT ![genomeSnapshots[e][idx].styleTags] = Append(@, tag)]
  /\ UNCHANGED <<agentStates, genomeSnapshots, processed>>
  /\ UNCHANGED outsideEvolution

\* agent[trait] = v on the live agent at idx
setAgentTrait(idx, trait, v) ==
  /\ calls < MaxCalls
  /\ calls' = calls + 1
  /\ before' = agentStates
  /\ call' = EditCall("setAgentTrait")
  /\ agentStates' = [agentStates EXCEPT ![idx].genome =
                       [t \in DOMAIN @ \cup {trait} |-> IF t = trait THEN v ELSE @[t]]]
  /\ UNCHANGED <<genomeSnapshots, arrays, processed>>
  /\ UNCHANGED outsideEvolution

\* ------------------------------------------------------------- specification

\* A roster as built, with the initial capture of it as the only log entry
\* (const genomeSnapshots = [agents.map((a) => snapshotGenome(a))]).
InitEvolution ==
  /\ \E roster \in Rosters :
       LET own == [i \in 1..Cardinality(DOMAIN roster) |-> roster[i - 1].styleTags]
       IN  /\ agentStates =
                [i \in DOMAIN roster |-> [roster[i] EXCEPT !.styleTags = i + 1]]
           /\ genomeSnapshots = <<SnapshotRoster(agentStates, own)>>
           /\ arrays = SpreadStyleTags(agentStates, own)
  /\ call = [fn |-> "none", cycleNum |-> 0, sortedDesigns |-> <<>>, outcome |-> "none"]
  /\ before = agentStates
  /\ calls = 0
  /\ processed = 0

\* the engine at rest on the roster of the one agent makeAgent builds, for the
\* other specifications
IdleEvolution ==
  /\ InitEvolution
  /\ Cardinality(DOMAIN agentStates) = 1
  /\ agentStates[0].name = makeAgent.name

IdlePatterns == patternBank = <<>> /\ retrieval = NoRetrieval

IdleTraits == traitEffectiveness = << >> /\ traitLog = <<>>

IdleGrid == qTable = << >>

IdleContext == context = NoContext

IdleStat == stat = [fn |-> "none", result |-> 0]

Init == InitEvolution /\ IdlePatterns /\ IdleTraits /\ IdleGrid /\ IdleContext /\ IdleStat

Next ==
  \E cycleNum \in CycleNums :
    \E sortedDesigns \in DesignLists(Cardinality(DOMAIN agentStates)) :
      evolveAgentGenomes(cycleNum, sortedDesigns)

Spec == Init /\ [][Next]_vars

\* The engine on a small roster, interleaved with the caller's edits.
SmallRoster == InitEvolution /\ Cardinality(DOMAIN agentStates) <= 3

InitSnapshot == Init /\ SmallRoster

NextSnapshot ==
  \/ Next
  \/ \E idx \in DOMAIN agentStates : \E tag \in EditTags : pushAgentStyleTag(idx, tag)
  \/ \E e \in 1..Len(genomeSnapshots) : \E idx \in DOMAIN agentStates :
       \E tag \in EditTags : pushSnapshotStyleTag(e, idx, tag)
  \/ \E idx \in DOMAIN agentStates : \E trait \in EditTraits : \E v \in EditValues :
       setAgentTrait(idx, trait, v)

SpecSnapshot == InitSnapshot /\ [][NextSnapshot]_vars

\* Pattern retrieval: any bank of the bound, scored for any of the agents.
InitPatterns ==
  /\ IdleEvolution /\ IdleTraits /\ IdleGrid /\ IdleContext /\ IdleStat
  /\ patternBank \in Banks
  /\ retrieval = NoRetrieval

NextPatterns ==
  \E agent \in PatternAgents : \E cycleReportsLength \in CycleIndexes :
    retrievePatterns(agent, cycleReportsLength)

SpecPatterns == InitPatterns /\ [][NextPatterns]_vars

\* Trait effectiveness: the three-agent roster or the one-trait agent, a map
\* that is empty or holds one hand-made record; the estimator is called with
\* any of the ranked lists, the caller may change a trait of the first agent
\* once, at any point, and the report is asked for the first agent and for
\* the index one past the roster.
InitTraits ==
  /\ SmallRoster /\ agentStates[0].name # makeAgent.name
  /\ IdlePatterns /\ IdleGrid /\ IdleContext /\ IdleStat
  /\ traitEffectiveness \in TraitMaps
  /\ traitLog = <<>>

NextTraits ==
  \/ \E cycleNum \in {Len(traitLog) + 1} :
       \E sortedDesigns \in TraitDesignLists(Cardinality(DOMAIN agentStates)) :
         computeTraitEffectiveness(cycleNum, sortedDesigns)
  \/ calls = 0 /\ setAgentTrait(0, "minimalism", 77)
  \/ \E agentIdx \in {0, Cardinality(DOMAIN agentStates)} :
       \E te \in {traitEffectiveness, Absent} :
         traitEffectivenessContext(agentIdx, te)

SpecTraits == InitTraits /\ [][NextTraits]_vars

\* The reports: a table as initQTable builds it, filled cell by cell, and a
\* trait map that is empty or hand-made; either formatter is called on the
\* state, on an absent one and on an empty one.
InitGrid ==
  /\ IdleEvolution /\ IdlePatterns /\ IdleContext /\ IdleStat
  /\ qTable = initQTable
  /\ traitEffectiveness \in TraitMaps
  /\ traitLog = <<>>

NextGrid ==
  \/ \E strat \in Range(Strategies) : \E cat \in {"Ring", "Pendant"} : \E cell \in Cells :
       setCell(strat, cat, cell)
  \/ \E table \in {qTable, Absent, << >>} : qTableContext(table)
  \/ \E agentIdx \in {0, Cardinality(DOMAIN agentStates)} :
       \E te \in {traitEffectiveness, Absent, << >>} :
         traitEffectivenessContext(agentIdx, te)

SpecGrid == InitGrid /\ [][NextGrid]_vars

\* The statistics library on its own: one call of one function, on every pair
\* of equally long series (every series, every pair of numbers) of the bounds.
\* The functions keep no state, so a second call shows nothing a first cannot.
InitStats == Init /\ IdleEvolution

NextStats ==
  \/ IdleStat /\ \E n \in 0..MaxPoints : \E xs \in Series(n) : \E ys \in Series(n) :
       pearsonCorrCall(xs, ys)
  \/ IdleStat /\ \E n \in 0..MaxPoints : \E vals \in Series(n) : giniCoeffCall(vals)
  \/ IdleStat /\ \E n \in 0..MaxPoints : \E xs \in Series(n) : \E ys \in Series(n) :
       linearSlopeCall(xs, ys)
  \/ IdleStat /\ \E v \in StatValues : \E tot \in StatValues : pctCall(v, tot)

SpecStats == InitStats /\ [][NextStats]_vars

\* -------------------------------------------------------------------- claims
\* The properties are stated over the last call (its arguments in `call`, the
\* roster it started from in `before`) and do not use the operators of the
\* engine above, only the rule table and the design records.

\* The last call was evolveAgentGenomes with a cycle number that has a rule and
\* a design list that has a first and a last design, so it ran to its end.
Evolved ==
  /\ call.fn = "evolveAgentGenomes"
  /\ call.cycleNum \in 1..5
  /\ call.sortedDesigns # <<>>

\* agentIdx of the first and of the last design of the last call
FirstIdx == AgentIdxOf(call.sortedDesigns[1])

LastIdx == AgentIdxOf(call.sortedDesigns[Len(call.sortedDesigns)])

\* The delta map the spec gives the agent at roster index idx in the last call.
TierMap(idx) ==
  LET rules == EVOLUTION_RULES[call.cycleNum]
  IN  IF idx = FirstIdx THEN rules.winner
      ELSE IF idx = LastIdx THEN rules.loser
      ELSE rules.others

\* the record the last call appended to the agent's evolutionHistory
LastRecord(idx) ==
  agentStates[idx].evolutionHistory[Len(agentStates[idx].evolutionHistory)]

\* C1: every genome trait of every agent lies in [0,100] after each call, for
\* every roster that starts in that range and every sequence of calls.
C1_TraitsInRange ==
  \A idx \in DOMAIN agentStates :
    \A t \in DOMAIN agentStates[idx].genome :
      agentStates[idx].genome[t] \in 0..100

\* C1 witness: a call in which the clamp cut a shift at 0 for one trait and at
\* 100 for another.
C1_Witness ==
  /\ Evolved
  /\ \E idx \in DOMAIN agentStates :
       \E t \in DOMAIN TierMap(idx) \cap DOMAIN before[idx].genome :
         /\ before[idx].genome[t] + TierMap(idx)[t] < 0
         /\ agentStates[idx].genome[t] = 0
  /\ \E idx \in DOMAIN agentStates :
       \E t \in DOMAIN TierMap(idx) \cap DOMAIN before[idx].genome :
         /\ before[idx].genome[t] + TierMap(idx)[t] > 100
         /\ agentStates[idx].genome[t] = 100

\* C2: a call with a cycle number outside 1..5 changes no field of any agent
\* and appends nothing to the snapshot log, whatever the design list holds.
C2_UnknownCycleIsNoOp ==
  [][(/\ calls' = calls + 1
      /\ call'.fn = "evolveAgentGenomes"
      /\ call'.cycleNum \notin 1..5)
     => (agentStates' = agentStates /\ genomeSnapshots' = genomeSnapshots)]_vars

\* C2 witness: a call with an unknown cycle number and a full design list has
\* returned, after an earlier call that did evolve the roster.
C2_Witness ==
  /\ call.fn = "evolveAgentGenomes"
  /\ call.cycleNum \notin 1..5
  /\ Len(call.sortedDesigns) = Cardinality(DOMAIN agentStates)
  /\ call.outcome = "no rules"
  /\ processed = 1
  /\ agentStates = before

\* C3: the snapshot log has one entry more than the number of processed
\* cycles, and every entry holds one snapshot per agent of the roster.
C3_LogLength ==
  /\ Len(genomeSnapshots) = processed + 1
  /\ \A e \in 1..Len(genomeSnapshots) :
       /\ DOMAIN genomeSnapshots[e] = DOMAIN agentStates
       /\ \A idx \in DOMAIN agentStates :
            genomeSnapshots[e][idx].name = agentStates[idx].name

\* C3 witness: two cycles processed, three entries in the log.
C3_Witness ==
  /\ processed = 2
  /\ Len(genomeSnapshots) = 3
  /\ Cardinality(DOMAIN genomeSnapshots[3]) = 10

\* C4: every delta in the genomeShifts of the record a call appends equals the
\* trait's value in the snapshot the call appended minus its value in the
\* previous snapshot of the log.
C4_ShiftsMatchSnapshots ==
  Evolved =>
    \A idx \in DOMAIN agentStates :
      \A t \in DOMAIN LastRecord(idx).genomeShifts :
        LastRecord(idx).genomeShifts[t] =
          genomeSnapshots[Len(genomeSnapshots)][idx].genome[t]
            - genomeSnapshots[Len(genomeSnapshots) - 1][idx].genome[t]

\* C4 witness: a recorded delta that the clamp made smaller than the rule's
\* nominal delta.
C4_Witness ==
  /\ Evolved
  /\ \E idx \in DOMAIN agentStates :
       \E t \in DOMAIN LastRecord(idx).genomeShifts :
         /\ LastRecord(idx).genomeShifts[t] # TierMap(idx)[t]
         /\ LastRecord(idx).genomeShifts[t] # 0

\* C5: every agent receives exactly one tier's delta map, the winner map
\* before the loser map before the others map, and every trait of that map the
\* agent has becomes clamp(old + delta, 0, 100).
C5_TierShifts ==
  Evolved =>
    \A idx \in DOMAIN agentStates :
      /\ DOMAIN LastRecord(idx).genomeShifts =
           DOMAIN TierMap(idx) \cap DOMAIN before[idx].genome
      /\ \A t \in DOMAIN TierMap(idx) \cap DOMAIN before[idx].genome :
           LET v == before[idx].genome[t] + TierMap(idx)[t]
           IN  agentStates[idx].genome[t] =
                 (IF v < 0 THEN 0 ELSE IF v > 100 THEN 100 ELSE v)

\* C5 witness: a call whose first and last design belong to different agents,
\* in which the winner, the loser and a third agent each had traits shifted.
C5_Witness ==
  /\ Evolved
  /\ FirstIdx # LastIdx
  /\ \E w, l, o \in DOMAIN agentStates :
       /\ w = FirstIdx /\ l = LastIdx /\ o \notin {w, l}
       /\ agentStates[w].genome # before[w].genome
       /\ agentStates[l].genome # before[l].genome
       /\ agentStates[o].genome # before[o].genome

\* C6 as stated: in every call with a valid cycle the winner's trustBuilt is
\* strictly greater after the call than before it.
C6_WinnerTrustStrictlyGreater ==
  Evolved =>
    \A idx \in DOMAIN agentStates :
      idx = FirstIdx => agentStates[idx].trustBuilt > before[idx].trustBuilt

\* C6 as amended: the winner's trustBuilt becomes min(100, old + 15); it is
\* strictly greater than before exactly when it was below 100, and a winner
\* already at 100 stays at 100.
C6_WinnerTrustCapped ==
  Evolved =>
    \A idx \in DOMAIN agentStates :
      idx = FirstIdx =>
        LET old == before[idx].trustBuilt
            new == agentStates[idx].trustBuilt
        IN  /\ new = (IF old + 15 > 100 THEN 100 ELSE old + 15)
            /\ (new > old) <=> (old < 100)

\* C6 witness: a winner that entered the call with trustBuilt 100 and left it
\* with 100.
C6_Witness ==
  /\ Evolved
  /\ \E idx \in DOMAIN agentStates :
       /\ idx = FirstIdx
       /\ before[idx].trustBuilt = 100
       /\ agentStates[idx].trustBuilt = 100

\* C7 as stated: in every call with a valid cycle the trustBuilt of the agent
\* of the last-ranked design is exactly 5 lower after the call.
C7_LoserTrustDropsFive ==
  Evolved =>
    \A idx \in DOMAIN agentStates :
      idx = LastIdx => agentStates[idx].trustBuilt = before[idx].trustBuilt - 5

\* C7 as amended: the agent of the last-ranked design loses exactly 5 trust,
\* without a floor, unless the first-ranked design is its own too: then it is
\* the winner and gains min(15, 100 - old).
C7_LoserTrustDropsFiveUnlessWinner ==
  Evolved =>
    \A idx \in DOMAIN agentStates :
      idx = LastIdx =>
        agentStates[idx].trustBuilt =
          (IF idx = FirstIdx
           THEN (IF before[idx].trustBuilt + 15 > 100 THEN 100
                 ELSE before[idx].trustBuilt + 15)
           ELSE before[idx].trustBuilt - 5)

\* C7 witness: a loser that was at or below 0 went 5 lower, and a second loss
\* in a row took 5 more.
C7_Witness ==
  /\ Evolved
  /\ processed = 2
  /\ \E idx \in DOMAIN agentStates :
       /\ idx = LastIdx /\ idx # FirstIdx
       /\ before[idx].trustBuilt = -5
       /\ agentStates[idx].trustBuilt = -10
       /\ Len(agentStates[idx].evolutionHistory) = 2

\* the scenario of C8: cycle 1, ten agents, agent 0 first and agent 9 last
C8_Scenario ==
  /\ Evolved
  /\ call.cycleNum = 1
  /\ DOMAIN agentStates = 0..9
  /\ FirstIdx = 0
  /\ LastIdx = 9

\* C8 as stated: in the scenario every agent other than 0 and 9 gains exactly
\* 5 trust.
C8_OthersTrustPlusFive ==
  C8_Scenario =>
    \A idx \in 1..8 : agentStates[idx].trustBuilt = before[idx].trustBuilt + 5

\* C8 as amended: in the scenario every agent other than 0 and 9 ends at
\* min(100, old + 5): exactly 5 more when it was at most 95, and 100 otherwise.
C8_OthersTrustPlusFiveCapped ==
  C8_Scenario =>
    \A idx \in 1..8 :
      agentStates[idx].trustBuilt =
        (IF before[idx].trustBuilt + 5 > 100 THEN 100
         ELSE before[idx].trustBuilt + 5)

\* C8 witness: the scenario with one of the other agents already at 100, which
\* stays at 100 while the rest gain 5.
C8_Witness ==
  /\ C8_Scenario
  /\ \E idx \in 1..8 :
       before[idx].trustBuilt = 100 /\ agentStates[idx].trustBuilt = 100
  /\ \E idx \in 1..8 :
       agentStates[idx].trustBuilt = before[idx].trustBuilt + 5

\* C9: a call with a valid cycle appends exactly one record to every agent's
\* evolutionHistory, carrying the cycle number, and exactly one to every
\* agent's conversationMemory; no call changes, reorders or removes a record
\* that an earlier call appended.
C9_HistoriesGrowByOne ==
  \A idx \in DOMAIN agentStates :
    LET oldE == before[idx].evolutionHistory
        newE == agentStates[idx].evolutionHistory
        oldC == before[idx].conversationMemory
        newC == agentStates[idx].conversationMemory
    IN  /\ Len(newE) = Len(oldE) + (IF Evolved THEN 1 ELSE 0)
        /\ Len(newC) = Len(oldC) + (IF Evolved THEN 1 ELSE 0)
        /\ \A k \in 1..Len(oldE) : newE[k] = oldE[k]
        /\ \A k \in 1..Len(oldC) : newC[k] = oldC[k]
        /\ Evolved => newE[Len(newE)].cycle = call.cycleNum
        /\ Len(newE) = processed

\* C9 witness: a second processed cycle, of another number than the first, with
\* both records of an agent in order of their calls.
C9_Witness ==
  /\ Evolved
  /\ \E idx \in DOMAIN agentStates :
       /\ Len(agentStates[idx].evolutionHistory) = 2
       /\ Len(agentStates[idx].conversationMemory) = 2
       /\ agentStates[idx].evolutionHistory[1].cycle # call.cycleNum
       /\ agentStates[idx].evolutionHistory[2].cycle = call.cycleNum

\* A ranked-design list is well formed when it has one design per agent of the
\* roster and every roster index is the agentIdx of one design.
WellFormed(sortedDesigns, roster) ==
  /\ Len(sortedDesigns) = Cardinality(roster)
  /\ {AgentIdxOf(sortedDesigns[k]) : k \in 1..Len(sortedDesigns)} = roster

\* C10: a call with a valid cycle and a malformed ranked-design list signals an
\* error and changes no agent and no snapshot log.
C10_MalformedListRejected ==
  [][(/\ calls' = calls + 1
      /\ call'.fn = "evolveAgentGenomes"
      /\ call'.cycleNum \in 1..5
      /\ ~WellFormed(call'.sortedDesigns, DOMAIN agentStates))
     => (/\ call'.outcome = "TypeError"
         /\ agentStates' = agentStates
         /\ genomeSnapshots' = genomeSnapshots)]_vars

\* The values a snapshot holds: its fields, with the styleTags reference
\* followed to the elements of the array.
SnapshotValues(snap, store) == [snap EXCEPT !.styleTags = store[snap.styleTags]]

\* C11: once a snapshot is in the log, an evolveAgentGenomes call or an edit of
\* the live agent (a trait, its styleTags list) leaves every value in it as it
\* was, and an edit of a snapshot's styleTags leaves every agent's styleTags
\* as they were.
C11_SnapshotsImmutable ==
  [][/\ call'.fn \in {"evolveAgentGenomes", "pushAgentStyleTag", "setAgentTrait"} =>
          \A e \in 1..Len(genomeSnapshots) : \A idx \in DOMAIN genomeSnapshots[e] :
            SnapshotValues(genomeSnapshots'[e][idx], arrays')
              = SnapshotValues(genomeSnapshots[e][idx], arrays)
     /\ call'.fn = "pushSnapshotStyleTag" =>
          \A idx \in DOMAIN agentStates :
            /\ arrays'[agentStates'[idx].styleTags] = arrays[agentStates[idx].styleTags]
            /\ agentStates'[idx] = agentStates[idx]]_vars

\* C11 witness: after a processed cycle the live agent's styleTags were pushed
\* to, and the snapshot that cycle appended still holds the shorter list.
C11_Witness ==
  /\ call.fn = "pushAgentStyleTag"
  /\ processed = 1
  /\ \E idx \in DOMAIN agentStates :
       /\ Len(arrays[agentStates[idx].styleTags]) = 3
       /\ Len(arrays[genomeSnapshots[2][idx].styleTags]) = 2

\* the ways to pick the entries of top3 out of scored, one position each
Picks(top3, scored) ==
  {f \in [1..Len(top3) -> 1..Len(scored)] :
     /\ \A i, j \in 1..Len(top3) : i # j => f[i] # f[j]
     /\ \A i \in 1..Len(top3) : top3[i] = scored[f[i]]}

\* C12: on an empty bank the result is the empty text; on n >= 1 entries it
\* lists min(3, n) of them, in non-increasing order of score, and no entry
\* left out scores strictly higher than a listed one.
C12_TopThreeByScore ==
  retrieval.fn = "retrievePatterns" =>
    LET n == Len(patternBank)
        top3 == retrieval.top3
    IN  /\ n = 0 => retrieval.result = <<>>
        /\ n >= 1 =>
             /\ Len(top3) = Min(3, n)
             /\ Len(retrieval.result) = 1 + Min(3, n)
             /\ retrieval.result[1].top = Min(3, n)
             /\ \A i \in 1..Len(top3) :
                  /\ retrieval.result[i + 1].n = i
                  /\ retrieval.result[i + 1].rank = top3[i].rank
                  /\ retrieval.result[i + 1].cycle = top3[i].cycle
             /\ \A i, j \in 1..Len(top3) :
                  i < j => top3[i].relevanceScore >= top3[j].relevanceScore
             /\ \E f \in Picks(top3, retrieval.scored) :
                  \A k \in 1..n : (\A i \in 1..Len(top3) : f[i] # k) =>
                    \A i \in 1..Len(top3) :
                      retrieval.scored[k].relevanceScore <= top3[i].relevanceScore

\* C12 witness: a bank of four with distinct scores among the listed three,
\* the best of them stored last, and one entry left out.
C12_Witness ==
  /\ retrieval.fn = "retrievePatterns"
  /\ Len(patternBank) = 4
  /\ Len(retrieval.top3) = 3
  /\ retrieval.top3[1] = retrieval.scored[4]
  /\ retrieval.top3[1].relevanceScore > retrieval.top3[2].relevanceScore
  /\ retrieval.top3[2].relevanceScore > retrieval.top3[3].relevanceScore

\* the correlation of trait t with the credits in the call logged as entry
CorrOfCall(entry, t) == CurrentCorr(entry.agents, entry.sortedDesigns, t)

\* the last computeTraitEffectiveness call; an earlier entry of the log was
\* the last one in an earlier state
LastTraitCall == traitLog[Len(traitLog)]

\* C13: a call on a trait that already has a record leaves
\* cumulativeCorrelation = 0.6 * previous + 0.4 * current, correlation = current,
\* importanceWeight = 0.7 * |new cumulative| + 0.3 * |current| and
\* samples = previous samples + 1.
C13_BlendOnLaterObservation ==
  Len(traitLog) >= 1 =>
    \A t \in Range(TraitNames) \cap DOMAIN LastTraitCall.before :
      LET prev == LastTraitCall.before[t]
          now == LastTraitCall.after[t]
          current == CorrOfCall(LastTraitCall, t)
      IN  /\ 10 * now.cumulativeCorrelation = 6 * prev.cumulativeCorrelation + 4 * current
          /\ now.correlation = current
          /\ 10 * now.importanceWeight
               = 7 * Abs(now.cumulativeCorrelation) + 3 * Abs(current)
          /\ now.samples = prev.samples + 1

\* C13 witness: a third observation whose current correlation is negative,
\* not a whole number and different from the cumulative value it is blended
\* into.
C13_Witness ==
  /\ Len(traitLog) >= 1
  /\ \E t \in Range(TraitNames) \cap DOMAIN LastTraitCall.before :
       /\ LastTraitCall.before[t].samples = 2
       /\ LastTraitCall.after[t].samples = 3
       /\ LastTraitCall.after[t].correlation < 0
       /\ LastTraitCall.after[t].correlation > -Scale
       /\ LastTraitCall.before[t].cumulativeCorrelation > 0
       /\ LastTraitCall.after[t].cumulativeCorrelation
            # LastTraitCall.before[t].cumulativeCorrelation

\* C14: a call on a trait without a record creates one with
\* correlation = cumulativeCorrelation = current, importanceWeight = |current|
\* and samples = 1.
C14_FirstObservation ==
  Len(traitLog) >= 1 =>
    \A t \in Range(TraitNames) \ DOMAIN LastTraitCall.before :
      LET now == LastTraitCall.after[t]
          current == CorrOfCall(LastTraitCall, t)
      IN  /\ now.correlation = current
          /\ now.cumulativeCorrelation = current
          /\ now.importanceWeight = Abs(current)
          /\ now.samples = 1

\* C14 witness: a call on a map holding one record creates the others, one of
\* them with a negative correlation.
C14_Witness ==
  /\ Len(traitLog) = 1
  /\ DOMAIN traitLog[1].before = {"minimalism"}
  /\ \E t \in Range(TraitNames) \ {"minimalism"} :
       /\ traitEffectiveness[t].samples = 1
       /\ traitEffectiveness[t].correlation < 0
       /\ traitEffectiveness[t].importanceWeight > 0

\* every call so far was made on the designs and the agents of the first
\* one, and the first one found no record
IdenticalCalls ==
  /\ Len(traitLog) >= 2
  /\ traitLog[1].before = << >>
  /\ \A k \in 2..Len(traitLog) :
       /\ traitLog[k].sortedDesigns = traitLog[1].sortedDesigns
       /\ traitLog[k].agents = traitLog[1].agents

\* C15: after a second call on the designs and agents of the first, and after
\* every further such call, each trait's cumulativeCorrelation is within 0.01
\* of its value after the first call.
C15_RepeatedSignalIsFixedPoint ==
  IdenticalCalls =>
    \A k \in 2..Len(traitLog) : \A t \in Range(TraitNames) :
      Abs(traitLog[k].after[t].cumulativeCorrelation
          - traitLog[1].after[t].cumulativeCorrelation) <= Scale \div 100

\* C15 witness: three identical calls, with a trait whose correlation is
\* neither 0 nor a whole number.
C15_Witness ==
  /\ IdenticalCalls
  /\ Len(traitLog) = 3
  /\ \E t \in Range(TraitNames) :
       /\ traitEffectiveness[t].samples = 3
       /\ Abs(traitEffectiveness[t].cumulativeCorrelation) > 0
       /\ Abs(traitEffectiveness[t].cumulativeCorrelation) < Scale

\* the lines of the last qTableContext text that carry the star
Starred == {i \in 1..Len(context.result) :
              "star" \in DOMAIN context.result[i] /\ context.result[i].star # ""}

\* C16: when a cell of the table has count > 0, exactly one listed cell is
\* marked best, and it is a cell of the highest avgCredits among those with
\* count > 0.
C16_ExactlyOneBestMarked ==
  (/\ context.fn = "qTableContext"
   /\ context.qTable # Absent
   /\ DOMAIN context.qTable # {}
   /\ Len(Sampled(context.qTable)) > 0) =>
    /\ Cardinality(Starred) = 1
    /\ \A i \in Starred :
         \E k \in Range(Sampled(context.qTable)) :
           /\ ToUpperCase(k.strat) = context.result[i].strat
           /\ k.cat = context.result[i].cat
           /\ \A other \in Range(Sampled(context.qTable)) :
                context.qTable[other.strat][other.cat].avgCredits
                  <= context.qTable[k.strat][k.cat].avgCredits

\* C17: qTableContext returns the empty text for an absent table, an empty
\* one and one whose cells all have count = 0; traitEffectivenessContext
\* returns it for an absent map, an empty one and an agent index outside the
\* roster.
C17_EmptyStateEmptyText ==
  /\ (/\ context.fn = "qTableContext"
      /\ \/ context.qTable = Absent
         \/ DOMAIN context.qTable = {}
         \/ \A s \in DOMAIN context.qTable : \A c \in DOMAIN context.qTable[s] :
              context.qTable[s][c].count = 0)
     => context.result = <<>>
  /\ (/\ context.fn = "traitEffectivenessContext"
      /\ \/ context.traitEffectiveness = Absent
         \/ DOMAIN context.traitEffectiveness = {}
         \/ context.agentIdx \notin DOMAIN agentStates)
     => context.result = <<>>

\* C17 witness: the report of a table as initQTable built it is empty.
C17_Witness ==
  /\ context.fn = "qTableContext"
  /\ context.qTable = initQTable
  /\ context.result = <<>>

\* the lines of the last traitEffectivenessContext text, after its header
TraitLines == {i \in 2..Len(context.result) : "ewc" \in DOMAIN context.result[i]}

\* C18: a listed trait is marked PROVEN exactly when its importanceWeight is
\* above 0.4 and its samples are at least 2; none is after a single
\* computeTraitEffectiveness call on an empty map.
C18_ProvenIffImportantAndSampled ==
  (context.fn = "traitEffectivenessContext" /\ context.result # <<>>) =>
    /\ \A i \in TraitLines :
         LET data == context.traitEffectiveness[context.result[i].trait]
         IN  (context.result[i].ewc # "")
               <=> (10 * data.importanceWeight > 4 * Scale /\ data.samples >= 2)
    /\ (/\ Len(traitLog) = 1
        /\ traitLog[1].before = << >>
        /\ context.traitEffectiveness = traitLog[1].after)
       => \A i \in TraitLines : context.result[i].ewc = ""

\* C18 witness: a report with a PROVEN line, a line of two samples and low
\* importance, and one taken after a single call with high importance and no
\* mark.
C18_Witness ==
  /\ context.fn = "traitEffectivenessContext"
  /\ \E i, j \in TraitLines :
       /\ context.result[i].ewc # ""
       /\ context.result[j].ewc = ""
       /\ context.traitEffectiveness[context.result[j].trait].samples >= 2

\* C18 witness of the single-call case: high importance, one sample, no mark.
C18_SingleCallWitness ==
  /\ context.fn = "traitEffectivenessContext"
  /\ Len(traitLog) = 1
  /\ traitLog[1].before = << >>
  /\ context.traitEffectiveness = traitLog[1].after
  /\ \E i \in TraitLines :
       /\ context.result[i].ewc = ""
       /\ 10 * context.traitEffectiveness[context.result[i].trait].importanceWeight
            > 4 * Scale

\* whether every value of a series is the same (so is the empty series)
Constant(xs) == \A i, j \in 1..Len(xs) : xs[i] = xs[j]

C19_GiniWitness ==
  /\ stat.fn = "giniCoeff"
  /\ stat.vals = <<3, -3>>
  /\ stat.result = 0

\* the record the last call appended to the agent's conversationMemory
LastConversation(idx) ==
  agentStates[idx].conversationMemory[Len(agentStates[idx].conversationMemory)]

\* the name of the agent after idx in roster order, the first after the last
NextInRoster(idx) ==
  before[(idx + 1) % Cardinality(DOMAIN before)].name

\* the names of the agents whose history, before the last call, holds a win
\* of the cycle before the last call's
PreviousWinners ==
  { before[w].name : w \in
      { w \in DOMAIN before :
          \E k \in 1..Len(before[w].evolutionHistory) :
            LET r == before[w].evolutionHistory[k]
            IN  /\ r.cycle = call.cycleNum - 1
                /\ r.summary.template = "Won with NAME (CREDITS). Genome reinforced." } }

\* the names a conversation record holds, as its partner or as a part of its
\* message (the second part of a message is the number it prints)
NamesIn(record) ==
  {record.partner} \cup {record.excerpt[k] : k \in DOMAIN record.excerpt \ {2}}

\* C20 as stated: the record appended for the agent at idx names, for cycle 1,
\* the next agent in roster order, circularly, with the cold-start message,
\* and for a cycle c >= 2 it references the winner of cycle c - 1 by name.
C20_NamesPreviousWinner ==
  Evolved =>
    \A idx \in DOMAIN agentStates :
      IF call.cycleNum = 1
      THEN /\ LastConversation(idx).partner = NextInRoster(idx)
           /\ LastConversation(idx).excerpt =
                <<"First cycle cold start -- exploring identity">>
      ELSE PreviousWinners \subseteq NamesIn(LastConversation(idx))

\* C20 (amended): the record appended for the agent at idx names, in every
\* cycle, the next agent in roster order, circularly; its message is the fixed
\* cold-start message for cycle 1 and, for a cycle c >= 2, a message that
\* refers to the winner of cycle c - 1 by the label "C{c-1} winner" only.
C20_NamesNextAgent ==
  Evolved =>
    \A idx \in DOMAIN agentStates :
      /\ LastConversation(idx).cycle = call.cycleNum
      /\ LastConversation(idx).partner = NextInRoster(idx)
      /\ LastConversation(idx).excerpt =
           IF call.cycleNum = 1
           THEN <<"First cycle cold start -- exploring identity">>
           ELSE <<"Referenced C", call.cycleNum - 1,
                  " winner and trend data in design dialogue">>

\* a call for a cycle c >= 2 on a roster of at least three agents, after a
\* call for cycle c - 1 that some agent won: the last agent's record names the
\* first agent, and some agent's record does not name the earlier winner
C20_Witness ==
  /\ Evolved
  /\ call.cycleNum >= 2
  /\ Cardinality(DOMAIN agentStates) >= 3
  /\ PreviousWinners # {}
  /\ LastConversation(Cardinality(DOMAIN agentStates) - 1).partner = before[0].name
  /\ \E idx \in DOMAIN agentStates :
       ~(PreviousWinners \subseteq NamesIn(LastConversation(idx)))

\* the agent and the cycle index of the last retrievePatterns call
Asker == retrieval.agent

\* the first comma-separated segment of the asker's marketFocus
FirstSegment ==
  IF "marketFocus" \in DOMAIN Asker THEN SplitComma(Asker.marketFocus)[1] ELSE ""

\* the strategy the asker's risk implies
ImpliedStrategy ==
  IF "risk" \notin DOMAIN Asker.genome THEN "mutate"
  ELSE IF Asker.genome.risk > 65 THEN "explore"
  ELSE IF Asker.genome.risk < 35 THEN "exploit"
  ELSE "mutate"

\* the parts of the score of a stored entry p, in hundredths
ConfidencePart(p) == 2 * p.confidence

RankPart(p) == IF p.rank <= 3 THEN 150 ELSE 50

CategoryPart(p) == IF p.category = FirstSegment THEN 300 ELSE 0

StrategyPart(p) == IF p.strategy = ImpliedStrategy THEN 200 ELSE 0

RecencyPart(p) == IF p.cycle = retrieval.cycleReportsLength THEN 100 ELSE 0

\* a trait value with 50 standing in for a missing one only
MissingIsFifty(rec, t) == IF t \in DOMAIN rec THEN rec[t] ELSE 50

\* a trait value as the code reads it, 50 standing in for a missing one and
\* for 0
FalsyIsFifty(rec, t) == IF t \in DOMAIN rec /\ rec[t] # 0 THEN rec[t] ELSE 50

PairedTraits ==
  {"novelty", "marketFit", "risk", "platBias", "manufacturability", "wearability"}

\* the trait part when present values, 0 included, are used as they are
TraitPartAsStated(p) ==
  100 * Cardinality({t \in PairedTraits :
        Abs(MissingIsFifty(Asker.genome, t)
            - MissingIsFifty(GenomeTraitsOf(p), t)) <= 15})

\* the trait part as the code computes it
TraitPartAsCoded(p) ==
  100 * Cardinality({t \in PairedTraits :
        Abs(FalsyIsFifty(Asker.genome, t)
            - FalsyIsFifty(GenomeTraitsOf(p), t)) <= 15})

\* C21: in the score of every entry, each of the six paired traits adds 1
\* exactly when |agent value - entry value| <= 15, a side counting as 50 only
\* when its value is missing; a value that is present, 0 included, is used as
\* it is.
C21_PresentValuesUsedAsTheyAre ==
  retrieval.fn = "retrievePatterns" =>
    \A k \in 1..Len(retrieval.scored) :
      LET p == patternBank[k]
      IN  retrieval.scored[k].relevanceScore
            - (ConfidencePart(p) + RankPart(p) + CategoryPart(p)
               + StrategyPart(p) + RecencyPart(p))
          = TraitPartAsStated(p)

\* C22: the implied strategy is explore for risk > 65, exploit for risk < 35
\* and mutate otherwise, 35 and 65 included; an entry's score holds 2 for the
\* strategy exactly when the entry's strategy is the implied one.
C22_StrategyBonus ==
  retrieval.fn = "retrievePatterns" =>
    \A k \in 1..Len(retrieval.scored) :
      LET p == patternBank[k]
      IN  retrieval.scored[k].relevanceScore
            - (ConfidencePart(p) + RankPart(p) + CategoryPart(p)
               + TraitPartAsCoded(p) + RecencyPart(p))
          = IF p.strategy = ImpliedStrategy THEN 200 ELSE 0

\* an agent with risk exactly 65 asked about a bank that holds a mutate entry,
\* which got the 2, and an explore entry, which did not
C22_Witness ==
  /\ retrieval.fn = "retrievePatterns"
  /\ Asker.genome.risk = 65
  /\ \E i, j \in 1..Len(patternBank) :
       /\ patternBank[i].strategy = "mutate"
       /\ patternBank[j].strategy = "explore"
       /\ patternBank[i].rank = 2 /\ patternBank[j].rank = 4
       /\ retrieval.scored[i].relevanceScore - retrieval.scored[j].relevanceScore
            >= 200

\* C23: the score of an entry holds confidence * 2, 1.5 for a rank <= 3 and
\* 0.5 otherwise, 3 exactly when the entry's category is the first
\* comma-separated segment of the agent's marketFocus, and 1 exactly when the
\* entry's cycle is the cycle index of the call; what remains is the strategy
\* and trait part, so entries that differ in one part differ by that part.
C23_ScoreComponents ==
  retrieval.fn = "retrievePatterns" =>
    \A k \in 1..Len(retrieval.scored) :
      LET p == patternBank[k]
      IN  retrieval.scored[k].relevanceScore
            - (StrategyPart(p) + TraitPartAsCoded(p))
          = 2 * p.confidence
            + (IF p.rank <= 3 THEN 150 ELSE 50)
            + (IF p.category = FirstSegment THEN 300 ELSE 0)
            + (IF p.cycle = retrieval.cycleReportsLength THEN 100 ELSE 0)

\* the agent whose marketFocus is "Pendant,Ring" asked, with cycle index 2,
\* about a bank that holds the Pendant entry of cycle 2 and rank 4 and a Ring
\* entry of cycle 1
C23_Witness ==
  /\ retrieval.fn = "retrievePatterns"
  /\ Asker.marketFocus = "Pendant,Ring"
  /\ retrieval.cycleReportsLength = 2
  /\ \E i, j \in 1..Len(patternBank) :
       /\ patternBank[i].category = "Pendant" /\ patternBank[i].cycle = 2
       /\ patternBank[i].rank = 4
       /\ patternBank[j].category = "Ring" /\ patternBank[j].rank = 1

\* the calls so far are one or more and the first of them found no record
StartedEmpty == Len(traitLog) >= 1 /\ traitLog[1].before = << >>

\* C24: after k >= 1 calls of computeTraitEffectiveness on an initially empty
\* state there is a record for exactly the 16 fixed traits, whether or not an
\* agent has the trait, and every record has samples = k.
C24_SixteenRecordsWithKSamples ==
  StartedEmpty =>
    /\ DOMAIN traitEffectiveness = Range(TraitNames)
    /\ Cardinality(DOMAIN traitEffectiveness) = 16
    /\ \A t \in DOMAIN traitEffectiveness :
         traitEffectiveness[t].samples = Len(traitLog)

\* as many calls as the bound allows on a roster whose one agent has no trait
\* but risk: diamond, which no agent has, has its record
C24_Witness ==
  /\ StartedEmpty
  /\ Len(traitLog) >= 3
  /\ \A e \in Range(traitLog) :
       \A i \in DOMAIN e.agents : "diamond" \notin DOMAIN e.agents[i].genome
  /\ \E e \in Range(traitLog) : e.sortedDesigns # <<>>
  /\ traitEffectiveness["diamond"].samples = Len(traitLog)

\* the designs among the first three of the last call whose agentIdx names an
\* agent of the roster, as positions in the ranked list
AuthorPositions ==
  {i \in 1..Min(3, Len(LastTraitCall.sortedDesigns)) :
     /\ "agentIdx" \in DOMAIN LastTraitCall.sortedDesigns[i]
     /\ LastTraitCall.sortedDesigns[i].agentIdx \in DOMAIN LastTraitCall.agents}

\* the value of trait t for the author of the design at position i, 50 when
\* the author lacks the trait, and 0 for a position that has no author
AuthorValue(i, t) ==
  IF i \notin AuthorPositions THEN 0
  ELSE LET a == LastTraitCall.agents[LastTraitCall.sortedDesigns[i].agentIdx]
       IN  IF t \in DOMAIN a.genome THEN a.genome[t] ELSE 50

\* C25: after every call each trait's lastCycleValue (held in sixths) is the
\* mean of the trait over the authors of the first three designs of this call,
\* fewer when the list is shorter or an agentIdx resolves to no agent, an
\* author without the trait counting as 50; it is 50 when no author resolves,
\* and the value of the call before plays no part.
C25_LastCycleValueIsWinnerMean ==
  Len(traitLog) >= 1 =>
    \A t \in Range(TraitNames) :
      LET n == Cardinality(AuthorPositions)
          value == LastTraitCall.after[t].lastCycleValue
      IN  /\ traitEffectiveness[t].lastCycleValue = value
          /\ IF n = 0 THEN value = 6 * 50
             ELSE n * value = 6 * (AuthorValue(1, t) + AuthorValue(2, t) + AuthorValue(3, t))

\* a later call on three designs of three authors, one of them lacking a
\* trait whose mean is not 50 and differs from the value the call before left
C25_Witness ==
  /\ Len(traitLog) >= 2
  /\ Cardinality(AuthorPositions) = 3
  /\ \E t \in Range(TraitNames) :
       /\ \E i \in AuthorPositions :
            t \notin DOMAIN LastTraitCall.agents[LastTraitCall.sortedDesigns[i].agentIdx].genome
       /\ LastTraitCall.before[t].lastCycleValue # LastTraitCall.after[t].lastCycleValue
       /\ LastTraitCall.after[t].lastCycleValue # 6 * 50

\* a call on four designs of which the second has no agent: the mean is over
\* two authors; and a call on no design at all, which leaves 50
C25_FewerAuthorsWitness ==
  /\ Len(traitLog) >= 2
  /\ LastTraitCall.sortedDesigns = <<>>
  /\ Len(traitLog[Len(traitLog) - 1].sortedDesigns) = 4
  /\ \E t \in Range(TraitNames) :
       /\ LastTraitCall.before[t].lastCycleValue # 6 * 50
       /\ traitEffectiveness[t].lastCycleValue = 6 * 50

\* C26: after any sequence of calls from an empty state every record's
\* direction is positive exactly when cumulativeCorrelation > 0.1, negative
\* exactly when it is < -0.1 and neutral otherwise, the first observation
\* included.
C26_DirectionFollowsCumulative ==
  StartedEmpty =>
    \A t \in DOMAIN traitEffectiveness :
      LET r == traitEffectiveness[t]
      IN  /\ r.direction = "positive" <=> 10 * r.cumulativeCorrelation > Scale
          /\ r.direction = "negative" <=> 10 * r.cumulativeCorrelation < -Scale
          /\ r.direction = "neutral" <=>
               /\ 10 * r.cumulativeCorrelation <= Scale
               /\ 10 * r.cumulativeCorrelation >= -Scale

\* after a later call, a record whose cumulative value lies between 0.1 and
\* 0.5 and is positive although the call's own correlation is not, next to a
\* negative and a neutral record
C26_Witness ==
  /\ StartedEmpty
  /\ Len(traitLog) >= 2
  /\ \E t \in DOMAIN traitEffectiveness :
       /\ traitEffectiveness[t].direction = "positive"
       /\ 2 * traitEffectiveness[t].cumulativeCorrelation < Scale
       /\ traitEffectiveness[t].correlation <= 0
  /\ \E t \in DOMAIN traitEffectiveness : traitEffectiveness[t].direction = "negative"
  /\ \E t \in DOMAIN traitEffectiveness : traitEffectiveness[t].direction = "neutral"

\* C29: after any sequence of calls from an empty state every record has
\* cumulativeCorrelation in [-1, 1] and importanceWeight in [0, 1].
C29_CorrelationAndWeightBounded ==
  StartedEmpty =>
    \A t \in DOMAIN traitEffectiveness :
      /\ traitEffectiveness[t].cumulativeCorrelation >= -Scale
      /\ traitEffectiveness[t].cumulativeCorrelation <= Scale
      /\ traitEffectiveness[t].importanceWeight >= 0
      /\ traitEffectiveness[t].importanceWeight <= Scale

\* after a later call, a record with |cumulativeCorrelation| and
\* importanceWeight of 0.8 or more
C29_Witness ==
  /\ StartedEmpty
  /\ Len(traitLog) >= 2
  /\ \E t \in DOMAIN traitEffectiveness :
       /\ 10 * Abs(traitEffectiveness[t].cumulativeCorrelation) >= 8 * Scale
       /\ 10 * traitEffectiveness[t].importanceWeight >= 8 * Scale

\* the roster capture the last call appended
LastSnapshots == genomeSnapshots[Len(genomeSnapshots)]

\* C27: the capture evolveAgentGenomes appends is taken after every agent has
\* been updated: for every agent and every trait a snapshot carries, the value
\* in the last log entry is the agent's live value after the call, or the
\* snapshot's default when the agent lacks the trait.
C27_SnapshotAfterAllUpdates ==
  Evolved =>
    /\ DOMAIN LastSnapshots = DOMAIN agentStates
    /\ \A idx \in DOMAIN agentStates :
         \A t \in DOMAIN LastSnapshots[idx].genome :
           LastSnapshots[idx].genome[t] =
             IF t \in DOMAIN agentStates[idx].genome
             THEN agentStates[idx].genome[t]
             ELSE SnapshotDefaults[t]

\* a call on the three-agent roster in which the first and the last agent
\* each had a trait changed that the capture holds with its new value, and the
\* middle agent lacks a trait the capture holds by default
C27_Witness ==
  /\ Evolved
  /\ Cardinality(DOMAIN agentStates) = 3
  /\ \A idx \in {0, 2} :
       \E t \in DOMAIN LastSnapshots[idx].genome :
         /\ agentStates[idx].genome[t] # before[idx].genome[t]
         /\ LastSnapshots[idx].genome[t] = agentStates[idx].genome[t]
  /\ \E t \in DOMAIN LastSnapshots[1].genome :
       /\ t \notin DOMAIN agentStates[1].genome
       /\ LastSnapshots[1].genome[t] = SnapshotDefaults[t]

\* the delta map of the agent at idx in the call the step makes
TierMapOfStep(idx) ==
  LET designs == call'.sortedDesigns
      rules == EVOLUTION_RULES[call'.cycleNum]
  IN  IF idx = AgentIdxOf(designs[1]) THEN rules.winner
      ELSE IF idx = AgentIdxOf(designs[Len(designs)]) THEN rules.loser
      ELSE rules.others

\* C28: a call with a valid cycle changes, for each agent, only the traits
\* named in the delta map of the agent's tier, dominantBelief, trustBuilt,
\* evolutionHistory and conversationMemory; every other trait, the agent's
\* identity (its styleTags included), credits, reputation and status stay as
\* they were, and a trait the agent lacks is not created.
C28_OnlyTierTraitsAndFiveFieldsChange ==
  [][(/\ call'.fn = "evolveAgentGenomes"
      /\ call'.cycleNum \in 1..5
      /\ call'.sortedDesigns # <<>>)
     => /\ DOMAIN agentStates' = DOMAIN agentStates
        /\ \A idx \in DOMAIN agentStates :
             LET old == agentStates[idx]
                 new == agentStates'[idx]
             IN  /\ DOMAIN new.genome = DOMAIN old.genome
                 /\ \A t \in DOMAIN old.genome \ DOMAIN TierMapOfStep(idx) :
                      new.genome[t] = old.genome[t]
                 /\ [new EXCEPT !.genome = old.genome,
                                !.dominantBelief = old.dominantBelief,
                                !.trustBuilt = old.trustBuilt,
                                !.evolutionHistory = old.evolutionHistory,
                                !.conversationMemory = old.conversationMemory] = old
                 /\ arrays'[new.styleTags] = arrays[old.styleTags]]_vars

\* a call after which an agent that lacks most traits of its tier's map has
\* one trait changed, another trait outside the map as it was, and no trait
\* more than before
C28_Witness ==
  /\ Evolved
  /\ \E idx \in DOMAIN agentStates :
       /\ DOMAIN TierMap(idx) \ DOMAIN before[idx].genome # {}
       /\ DOMAIN agentStates[idx].genome = DOMAIN before[idx].genome
       /\ \E t \in DOMAIN TierMap(idx) \cap DOMAIN before[idx].genome :
            agentStates[idx].genome[t] # before[idx].genome[t]
       /\ \E t \in DOMAIN before[idx].genome \ DOMAIN TierMap(idx) :
            agentStates[idx].genome[t] = before[idx].genome[t]
       /\ agentStates[idx].trustBuilt # before[idx].trustBuilt
       /\ agentStates[idx].credits = before[idx].credits

\* an entry without the score a call attached to its copy
Unscored(e) == [f \in DOMAIN e \ {"relevanceScore"} |-> e[f]]

\* C30: retrievePatterns only reads its inputs: a call leaves the bank with
\* the same entries in the same order and the roster as it was, no stored
\* entry ever carries a relevance score, and every call scores the entries as
\* they are stored, whatever calls were made before it.
C30_BankAndAgentOnlyRead ==
  [][retrieval'.fn = "retrievePatterns"
     => /\ patternBank' = patternBank
        /\ agentStates' = agentStates
        /\ \A k \in 1..Len(patternBank') : "relevanceScore" \notin DOMAIN patternBank'[k]
        /\ Len(patternBank) > 0 =>
             /\ Len(retrieval'.scored) = Len(patternBank)
             /\ \A k \in 1..Len(patternBank) :
                  /\ Unscored(retrieval'.scored[k]) = patternBank[k]
                  /\ "relevanceScore" \in DOMAIN retrieval'.scored[k]]_vars

\* a call on a bank of three or more entries: the copies the call ranked carry
\* a score, the stored entries carry none
C30_Witness ==
  /\ retrieval.fn = "retrievePatterns"
  /\ Len(patternBank) >= 3
  /\ Len(retrieval.top3) = 3
  /\ \A k \in 1..Len(patternBank) :
       /\ "relevanceScore" \in DOMAIN retrieval.scored[k]
       /\ "relevanceScore" \notin DOMAIN patternBank[k]
       /\ Unscored(retrieval.scored[k]) = patternBank[k]

====
